---- MODULE Spec2Model ----
(***************************************************************************)
(* Model of the INIM SmartLiving protocol engine (inim_api.py): the        *)
(* transport session (socket, connected flag, engine lock), the            *)
(* request/response exchange, and the six public operations that callers   *)
(* run on one InimAlarmAPI instance from executor threads.                 *)
(*                                                                         *)
(* A "hex string" of the source is modelled as the sequence of the bytes   *)
(* it spells (one element 0..255 per hex pair).  None is modelled as the   *)
(* empty tuple <<>> where a value is optional (<<v>> when present), and as *)
(* a record with ok = FALSE for the result of an exchange.                 *)
(***************************************************************************)
EXTENDS Integers, Sequences, FiniteSets, TLC

\* ------------------------------------------------------------ constants
MAX_RESPONSE_LEN_BYTES == 251
PIN_LENGTH_BYTES == 6
PIN_FILLER_HEX == 255
DEFAULT_SYSTEM_MAX_AREAS == 10
DEFAULT_SYSTEM_MAX_SCENARIOS == 30
MAX_EVENTS_PER_FETCH == 50
MAX_AREAS_PAYLOAD == 16
AREA_ACTION_DISARM == 4
AREA_ACTION_ARM == 1
AREA_ACTION_KEEP_STATUS == 0

COMMAND_SPECS ==
  [ GET_SYSTEM_INFO |-> [cmd_full |-> <<0, 0, 0, 64, 0, 0, 12, 76>>, resp_len |-> 14],
    GET_PIN_CODES_BATCH1 |-> [cmd_full |-> <<0, 0, 1, 97, 244, 0, 250, 80>>, resp_len |-> 251],
    GET_PIN_CODES_BATCH2 |-> [cmd_full |-> <<0, 0, 1, 98, 238, 0, 50, 131>>, resp_len |-> 51],
    GET_AREA_NAMES |-> [cmd_full |-> <<0, 1, 1, 0, 0, 0, 160, 162>>, resp_len |-> 161],
    GET_AREAS_STATUS |-> [cmd_full |-> <<0, 0, 0, 32, 0, 0, 16, 48>>, resp_len |-> 17],
    ARM_DISARM_AREAS_CMD_INFO |-> [cmd_full |-> <<1, 0, 0, 32, 6, 0, 14, 53>>, resp_len |-> 1],
    GET_SCENARIO_NAMES_1 |-> [cmd_full |-> <<0, 1, 1, 20, 80, 0, 250, 96>>, resp_len |-> 251],
    GET_SCENARIO_NAMES_2 |-> [cmd_full |-> <<0, 1, 1, 21, 74, 0, 230, 71>>, resp_len |-> 231],
    GET_SCENARIO_ACTIVATIONS |-> [cmd_full |-> <<0, 0, 1, 115, 216, 0, 240, 60>>, resp_len |-> 241],
    GET_ACTIVE_SCENARIO |-> [cmd_full |-> <<0, 0, 0, 31, 251, 127, 1, 154>>, resp_len |-> 2],
    CHECK_SCENARIO_ACTIVATION_ALLOWED_INFO |->
        [cmd_prefix |-> <<0, 0, 0, 31, 249>>, cmd_suffix |-> <<13>>, resp_len |-> 14],
    ACTIVATE_SCENARIO_CMD_INFO |-> [cmd_full |-> <<1, 0, 0, 32, 10, 0, 7, 50>>, resp_len |-> 1],
    GET_KEYBOARD_NAMES |-> [cmd_full |-> <<0, 1, 1, 11, 64, 0, 160, 237>>, resp_len |-> 161],
    GET_ZONE_NAMES_1 |-> [cmd_full |-> <<0, 1, 1, 0, 160, 0, 250, 156>>, resp_len |-> 251],
    GET_ZONE_NAMES_2 |-> [cmd_full |-> <<0, 1, 1, 1, 154, 0, 250, 151>>, resp_len |-> 251],
    GET_ZONE_NAMES_3 |-> [cmd_full |-> <<0, 1, 1, 2, 148, 0, 250, 146>>, resp_len |-> 251],
    GET_ZONE_NAMES_4 |-> [cmd_full |-> <<0, 1, 1, 3, 142, 0, 250, 141>>, resp_len |-> 251],
    GET_ZONE_NAMES_5 |-> [cmd_full |-> <<0, 1, 1, 4, 136, 0, 250, 136>>, resp_len |-> 251],
    GET_ZONE_NAMES_6 |-> [cmd_full |-> <<0, 1, 1, 5, 130, 0, 250, 131>>, resp_len |-> 251],
    GET_ZONE_NAMES_7 |-> [cmd_full |-> <<0, 1, 1, 6, 124, 0, 100, 232>>, resp_len |-> 101],
    GET_ZONES_CONFIG_1 |-> [cmd_full |-> <<0, 0, 1, 84, 80, 0, 250, 159>>, resp_len |-> 251],
    GET_ZONES_CONFIG_2 |-> [cmd_full |-> <<0, 0, 1, 85, 74, 0, 250, 154>>, resp_len |-> 251],
    GET_ZONES_CONFIG_3 |-> [cmd_full |-> <<0, 0, 1, 86, 68, 0, 250, 149>>, resp_len |-> 251],
    GET_ZONES_CONFIG_4 |-> [cmd_full |-> <<0, 0, 1, 87, 62, 0, 150, 44>>, resp_len |-> 151],
    GET_ZONES_CONFIG_5 |-> [cmd_full |-> <<0, 0, 1, 87, 212, 0, 250, 38>>, resp_len |-> 251],
    GET_ZONES_CONFIG_6 |-> [cmd_full |-> <<0, 0, 1, 88, 206, 0, 250, 33>>, resp_len |-> 251],
    GET_ZONES_CONFIG_7 |-> [cmd_full |-> <<0, 0, 1, 89, 200, 0, 100, 134>>, resp_len |-> 101],
    GET_ZONES_STATUS |-> [cmd_full |-> <<0, 0, 0, 32, 1, 0, 26, 59>>, resp_len |-> 27],
    GET_ZONES_STATUS_RELATED_1 |-> [cmd_full |-> <<0, 0, 0, 32, 2, 0, 26, 60>>, resp_len |-> 27],
    GET_ZONES_STATUS_RELATED_2 |-> [cmd_full |-> <<0, 0, 0, 32, 3, 0, 28, 63>>, resp_len |-> 29],
    GET_NEXT_EVENT_POINTER_CMD_INFO |-> [cmd_full |-> <<0, 0, 0, 31, 254, 0, 4, 33>>, resp_len |-> 6],
    GET_COMPACT_EVENT_CMD_INFO |->
        [cmd_base_prefix |-> <<0, 1, 1>>, cmd_base_suffix |-> <<0, 9>>, resp_len |-> 10] ]

\* ------------------------------------------------------------ byte helpers
Rep(n, b) == [i \in 1..n |-> b]

\* The sum of the bytes s[lo..hi] (halving keeps the evaluation shallow).
RECURSIVE SumRange(_, _, _)
SumRange(s, lo, hi) ==
  IF lo > hi THEN 0
  ELSE IF lo = hi THEN s[lo]
  ELSE LET mid == (lo + hi) \div 2
       IN  SumRange(s, lo, mid) + SumRange(s, mid + 1, hi)

\* The hexadecimal digits of a non-negative integer, most significant first.
RECURSIVE HexDigits(_)
HexDigits(v) == IF v < 16 THEN <<v>> ELSE Append(HexDigits(v \div 16), v % 16)

\* format(v, "02x"): the hexadecimal digits, zero-padded to at least two.
Format02x(v) ==
  LET d == HexDigits(v)
  IN  IF Len(d) < 2 THEN <<0>> \o d ELSE d

\* A variant that does not reduce the sum modulo 256.
calculate_checksum_NoModulo(hex_data) ==
  IF hex_data = <<>> THEN 0 ELSE SumRange(hex_data, 1, Len(hex_data))

\* CheckSum8 modulo 256 of a byte sequence; the empty input gives 00.
calculate_checksum(hex_data) ==
  IF hex_data = <<>> THEN 0 ELSE SumRange(hex_data, 1, Len(hex_data)) % 256

\* A variant that leaves a short PIN unpadded.
format_pin_code_NoPadding(pin_str) ==
  LET pin_bytes == [k \in 1..Len(pin_str) |-> 0 * 16 + pin_str[k]]
  IN  IF Len(pin_bytes) > PIN_LENGTH_BYTES THEN SubSeq(pin_bytes, 1, PIN_LENGTH_BYTES)
      ELSE pin_bytes

\* One byte 0x0d per digit d (f"0{char_digit}": high nibble 0, low nibble the digit),
\* padded with the filler to 6 bytes, cut to 6 bytes.
format_pin_code(pin_str) ==
  LET pin_bytes == [k \in 1..Len(pin_str) |-> 0 * 16 + pin_str[k]]
      padding_needed == PIN_LENGTH_BYTES - Len(pin_bytes)
      padded == IF padding_needed > 0
                THEN pin_bytes \o Rep(padding_needed, PIN_FILLER_HEX)
                ELSE pin_bytes
  IN  SubSeq(padded, 1, PIN_LENGTH_BYTES)

\* ------------------------------------------------------------ exchange
\* The outcome of one exchange as the socket delivers it:
\*   send : "ok" | "timeout" | "error"         (sock.sendall)
\*   recv : "data" | "closed" | "timeout" | "error"   (sock.recv)
\*   bytes: what recv returned when recv = "data" (1..buffer_size bytes)
NoException == "none"

\* Exception raised by _send_raw_command, or NoException.
SendRawCommand(connected, x) ==
  IF ~connected THEN "ConnectionError"
  ELSE IF x.send = "timeout" THEN "TimeoutError"
  ELSE IF x.send = "error" THEN "ConnectionError"
  ELSE NoException

\* _read_raw_response: the bytes read, or the exception raised.
ReadRawResponse(connected, x) ==
  IF ~connected THEN [exc |-> "ConnectionError", hex |-> <<>>]
  ELSE IF x.recv = "timeout" THEN [exc |-> "TimeoutError", hex |-> <<>>]
  ELSE IF x.recv = "error" THEN [exc |-> "ConnectionError", hex |-> <<>>]
  ELSE IF x.recv = "closed" \/ x.bytes = <<>> THEN [exc |-> "ConnectionError", hex |-> <<>>]
  ELSE [exc |-> NoException, hex |-> x.bytes]

\* _validate_and_parse_response: data block, or ValueError.
ValidateAndParseResponse(response) ==
  IF Len(response) < 1 THEN [exc |-> "ValueError", data |-> <<>>]
  ELSE LET data == SubSeq(response, 1, Len(response) - 1)
           checksum_received == response[Len(response)]
       IN  IF data = <<>> THEN [exc |-> NoException, data |-> <<>>]
           ELSE IF checksum_received # calculate_checksum(data)
                THEN [exc |-> "ValueError", data |-> <<>>]
                ELSE [exc |-> NoException, data |-> data]

\* Next-event pointers the panel may report: 0x01D5 (head 0xA278), 0x0C3B (head 14),
\* 0 (head 0x91FB).
PointerValues == {469, 3131, 0}

\* ------------------------------------------------------------ the panel's replies
WithChecksum(d) == d \o <<calculate_checksum(d)>>
BadChecksum(d) == d \o <<(calculate_checksum(d) + 1) % 256>>

\* A compact event record: 4 timestamp bytes, 4 context bytes, action code 0x8A.
SampleEvent == <<16, 32, 48, 64, 3, 0, 1, 2, 138>>

\* What recv may return for a data command (at most resp_len bytes): a full reply
\* with a valid checksum, a corrupted one, and replies delivered short.
DataReplyBytes(key) ==
  LET full == Rep(COMMAND_SPECS[key].resp_len - 1, 65)
  IN  CASE key = "CHECK_SCENARIO_ACTIVATION_ALLOWED_INFO" ->
             { Rep(14, 0), WithChecksum(Rep(12, 0) \o <<4>>), BadChecksum(Rep(13, 0)),
               Rep(5, 0), <<0>>, <<4>> }
        [] key = "GET_NEXT_EVENT_POINTER_CMD_INFO" ->
             { WithChecksum(<<x % 256, x \div 256, 0, 0, 0>>) : x \in PointerValues }
             \cup { BadChecksum(<<213, 1, 0, 0, 0>>), WithChecksum(<<213, 1>>),
                    WithChecksum(<<213>>), <<213>> }
        [] key = "GET_COMPACT_EVENT_CMD_INFO" ->
             { WithChecksum(SampleEvent), BadChecksum(SampleEvent),
               WithChecksum(SubSeq(SampleEvent, 1, 4)) }
        [] key = "GET_AREAS_STATUS" ->
             { WithChecksum(full), BadChecksum(full), WithChecksum(<<17, 17, 17>>), <<17>> }
        [] key = "GET_SCENARIO_ACTIVATIONS" ->
             { WithChecksum(full), BadChecksum(full), WithChecksum(Rep(8, 0)) }
        [] OTHER -> { WithChecksum(full), BadChecksum(full), <<65>> }

ActionKeys == {"ARM_DISARM_AREAS_CMD_INFO", "ACTIVATE_SCENARIO_CMD_INFO"}

\* The replies to the data commands, tabulated once per catalog key.
DataReplies == [key \in (DOMAIN COMMAND_SPECS) \ ActionKeys |-> DataReplyBytes(key)]

\* What recv(1) may return after an action command: the checksum of the payload that
\* was sent, or another byte.
AckReplyBytes(payload) ==
  { <<calculate_checksum(payload)>>, <<(calculate_checksum(payload) + 1) % 256>> }

ReplyBytes(cmd, payload) ==
  IF cmd.key \in ActionKeys THEN AckReplyBytes(payload) ELSE DataReplies[cmd.key]

\* ValidateAndParseResponse of the data replies, tabulated once.
ValidatedDataReplies ==
  [b \in UNION {DataReplies[key] : key \in DOMAIN DataReplies} |-> ValidateAndParseResponse(b)]

Validated(response) ==
  IF response \in DOMAIN ValidatedDataReplies THEN ValidatedDataReplies[response]
  ELSE ValidateAndParseResponse(response)

None == [ok |-> FALSE, data |-> <<>>]
Some(d) == [ok |-> TRUE, data |-> d]
\* Python truthiness of an exchange result: not None and not the empty string.
Truthy(r) == r.ok /\ r.data # <<>>

\* _send_command_core: the validated data block, or None on any of
\* ConnectionError, TimeoutError, ValueError.
SendCommandCore(connected, x) ==
  IF SendRawCommand(connected, x) # NoException THEN None
  ELSE LET r == ReadRawResponse(connected, x)
       IN  IF r.exc # NoException THEN None
           ELSE LET v == Validated(r.hex)
                IN  IF v.exc # NoException THEN None ELSE Some(v.data)


\* ------------------------------------------------------------ callers and calls
\* The threads that call the engine: the coordinator's poll and a user action
\* both run public operations in executor threads.
Callers == {"poll", "user"}

NoCall == [name |-> "none", scen |-> 0, areas_to_arm |-> {}, areas_to_disarm |-> {},
           count |-> <<>>, last |-> <<>>]

\* Scenario indexes passed by callers (valid: 0 and 29; invalid: 30 and -1).
ScenarioInputs == {0, 29, 30, -1}

AreaInputs == { <<{1, 3}, {2}>>, <<{}, {10}>>, <<{}, {}>> }

\* The in-range count that callers pass in count mode.
MaxCount == 2

\* (count, last_processed_compact_event_index_val) pairs.
EventInputs ==
  { <<<<>>, <<>>>>, <<<<0>>, <<>>>>, <<<<MaxCount>>, <<>>>>, <<<<51>>, <<>>>>,
    <<<<MaxCount>>, <<41592>>>>,
    <<<<>>, <<41592>>>>, <<<<>>, <<41574>>>>, <<<<>>, <<41000>>>>, <<<<>>, <<41580>>>>,
    <<<<>>, <<50000>>>>, <<<<>>, <<0>>>>, <<<<>>, <<65532>>>> }

Calls ==
  { [NoCall EXCEPT !.name = "config"], [NoCall EXCEPT !.name = "live"] }
  \cup { [NoCall EXCEPT !.name = "arm", !.areas_to_arm = a[1], !.areas_to_disarm = a[2]]
         : a \in AreaInputs }
  \cup { [NoCall EXCEPT !.name = "activate", !.scen = s] : s \in ScenarioInputs }
  \cup { [NoCall EXCEPT !.name = "check", !.scen = s] : s \in {0, 30} }
  \cup { [NoCall EXCEPT !.name = "events", !.count = e[1], !.last = e[2]] : e \in EventInputs }

\* ------------------------------------------------------------ frames
ConfigKeys == <<"system_info", "areas", "zones", "zones_config", "scenarios",
                "scenario_activations", "keyboard_names">>

ConfigCommands ==
  << <<"GET_SYSTEM_INFO">>,
     <<"GET_AREA_NAMES">>,
     <<"GET_ZONE_NAMES_1", "GET_ZONE_NAMES_2", "GET_ZONE_NAMES_3", "GET_ZONE_NAMES_4",
       "GET_ZONE_NAMES_5", "GET_ZONE_NAMES_6", "GET_ZONE_NAMES_7">>,
     <<"GET_ZONES_CONFIG_1", "GET_ZONES_CONFIG_2", "GET_ZONES_CONFIG_3", "GET_ZONES_CONFIG_4",
       "GET_ZONES_CONFIG_5", "GET_ZONES_CONFIG_6", "GET_ZONES_CONFIG_7">>,
     <<"GET_SCENARIO_NAMES_1", "GET_SCENARIO_NAMES_2">>,
     <<"GET_SCENARIO_ACTIVATIONS">>,
     <<"GET_KEYBOARD_NAMES">> >>

LiveKeys == <<"areas_status", "zones_status", "active_scenario">>
LiveCommands == <<"GET_AREAS_STATUS", "GET_ZONES_STATUS", "GET_ACTIVE_SCENARIO">>

ResultKeys == {ConfigKeys[i] : i \in 1..Len(ConfigKeys)} \cup {LiveKeys[i] : i \in 1..Len(LiveKeys)}

\* A resource of a result dict: not fetched yet, None, or a parsed value (of which the
\* model keeps the number of data bytes it was parsed from).
Unset == [st |-> "unset", raw |-> 0]
IsNone == [st |-> "None", raw |-> 0]
Populated(n) == [st |-> "populated", raw |-> n]

\* The local variables of one running public operation.
NewFrame(call) ==
  [ op |-> call,
    connected |-> FALSE,      \* connect() returned True in this operation
    connects |-> 0,           \* number of connect() calls made by this operation
    opened |-> 0,             \* number of sockets those calls created
    fin |-> FALSE,            \* the try body is over
    m |-> 1,                  \* position in the operation's sequence
    j |-> 1,                  \* fragment within a multi-command resource
    acc |-> 0,                \* data bytes concatenated so far for the resource
    parts |-> [k \in ResultKeys |-> <<>>],  \* per resource: the commands whose payloads
                              \* were concatenated, in the order of concatenation
    cfg |-> [k \in ResultKeys |-> Unset],
    errors |-> <<>>,
    error |-> "",
    allowed |-> <<>>,         \* result of check_scenario_activation_allowed
    check_reply |-> <<>>,     \* <<bytes>> read in reply to the permission check
    check_data |-> <<>>,      \* <<data>> that _send_command_core returned for it, <<>> if None
    ptr |-> <<>>,             \* the raw next-event pointer, high byte first
    ptr_reply |-> <<>>,       \* <<bytes>> read in reply to the pointer command
    ack |-> <<>>,             \* <<bytes>> read as acknowledgement of an action command
    y |-> <<>>,               \* y_current_most_recent_compact_val
    n |-> 0,                  \* actual_count_to_iterate
    i |-> 0,                  \* loop counter of the walk-back
    idx |-> 0,                \* current_loop_index_val
    events |-> <<>>,          \* query_index_val of the events retrieved
    arg |-> <<>>,             \* <<argument>> of a method called directly
    ret |-> <<>> ]            \* <<value>> once the return value is determined

NoFrame == NewFrame(NoCall)


\* ------------------------------------------------------------ commands
\* Position in the 16-nibble payload of an area (0-based), inverted within each byte.
\* A variant that puts the lower-numbered area of a pair in the high nibble.
NibbleStringIndex_NotInverted(area_num) ==
  LET byte_index_for_area == (area_num - 1) \div 2
  IN  IF area_num % 2 = 1 THEN byte_index_for_area * 2 ELSE byte_index_for_area * 2 + 1

NibbleStringIndex(area_num) ==
  LET byte_index_for_area == (area_num - 1) \div 2
  IN  IF area_num % 2 = 0 THEN byte_index_for_area * 2 ELSE byte_index_for_area * 2 + 1

\* _construct_area_action_payload: 8 bytes, two areas per byte.
ConstructAreaActionPayload(areas_to_arm, areas_to_disarm) ==
  LET action(a) == IF a \in areas_to_arm THEN AREA_ACTION_ARM
                   ELSE IF a \in areas_to_disarm THEN AREA_ACTION_DISARM
                   ELSE AREA_ACTION_KEEP_STATUS
      payload_nibbles == [k \in 0..(MAX_AREAS_PAYLOAD - 1) |->
                            action(CHOOSE a \in 1..MAX_AREAS_PAYLOAD : NibbleStringIndex(a) = k)]
  IN  [b \in 1..(MAX_AREAS_PAYLOAD \div 2) |->
         payload_nibbles[2 * (b - 1)] * 16 + payload_nibbles[2 * (b - 1) + 1]]

\* action_map of get_scenario_activations: the action a nibble stands for.
ActionOfNibble(n) ==
  IF n = AREA_ACTION_ARM THEN "arm"
  ELSE IF n = AREA_ACTION_DISARM THEN "disarm"
  ELSE IF n = AREA_ACTION_KEEP_STATUS THEN "keep"
  ELSE "unknown"

\* get_scenario_activations, the area actions of one scenario block: byte k (1..5) holds
\* area 2k in its high nibble and area 2k - 1 in its low nibble; areas above
\* system_max_areas are left out.
ParseAreaActions(area_action_part, system_max_areas) ==
  [a \in { x \in 1..10 : x <= system_max_areas } |->
     LET byte_val == area_action_part[(a + 1) \div 2]
     IN  IF a % 2 = 0 THEN ActionOfNibble(byte_val \div 16)
         ELSE ActionOfNibble(byte_val % 16)]

\* ------------------------------------------------------------ zone status
\* Hex digit digit_index (0-based) of a data block.
DigitAt(block, digit_index) ==
  LET byte_val == block[digit_index \div 2 + 1]
  IN  IF digit_index % 2 = 0 THEN byte_val \div 16 ELSE byte_val % 16

\* A variant in which the digits describe the zones in ascending order.
DigitZones_Ascending(digit_index) ==
  LET m == digit_index \div 2
  IN  IF digit_index % 2 = 0 THEN <<m * 4 + 1, m * 4 + 2>> ELSE <<m * 4 + 3, m * 4 + 4>>

\* The two zones a status digit describes: (zone1_num, zone2_num).
DigitZones(digit_index) ==
  LET m == digit_index \div 2
  IN  IF digit_index % 2 = 0 THEN <<m * 4 + 3, m * 4 + 4>> ELSE <<m * 4 + 1, m * 4 + 2>>

\* The statuses of the two zones for a status digit.
DigitStatuses(hex_digit) ==
  CASE hex_digit = 5 -> <<"clear", "clear">>
    [] hex_digit = 6 -> <<"alarmed", "clear">>
    [] hex_digit = 9 -> <<"clear", "alarmed">>
    [] hex_digit = 10 -> <<"alarmed", "alarmed">>
    [] OTHER -> <<"unknown", "unknown">>

\* parsed_zone_statuses_temp: the status stored for each zone 1..100 by the digit that
\* describes it.
ParsedZoneStatuses(zone_status_block) ==
  LET zones == { z \in 1..100 : \E i \in 0..49 : z \in {DigitZones(i)[1], DigitZones(i)[2]} }
  IN  [z \in zones |->
         LET i == CHOOSE i \in 0..49 : z \in {DigitZones(i)[1], DigitZones(i)[2]}
             st == DigitStatuses(DigitAt(zone_status_block, i))
         IN  IF z = DigitZones(i)[1] THEN st[1] ELSE st[2]]

\* get_zones_status: None (<<>>), the error result for a block that is not 26 bytes, or
\* the statuses of the parsed zones 1..system_max_zones in ascending order.
GetZonesStatus(r, system_max_zones) ==
  IF ~Truthy(r) THEN <<>>
  ELSE IF Len(r.data) # 26
  THEN <<[raw_hex_data |-> r.data, error |-> "Unexpected response data length",
          zone_statuses |-> <<>>, unknown_byte_after_status_data |-> <<>>]>>
  ELSE LET temp == ParsedZoneStatuses(SubSeq(r.data, 1, 25))
           kept == SelectSeq([i \in 1..system_max_zones |-> i], LAMBDA i : i \in DOMAIN temp)
       IN  <<[raw_hex_data |-> r.data, error |-> "",
              zone_statuses |-> [k \in DOMAIN kept |-> [zone |-> kept[k], status |-> temp[kept[k]]]],
              unknown_byte_after_status_data |-> SubSeq(r.data, 26, 26)]>>

\* ------------------------------------------------------------ area status
\* A variant that reads the lower-numbered area of a pair from the high nibble.
AreaStatusNibble_NotInverted(byte_val, area_num) ==
  IF area_num % 2 = 1 THEN byte_val \div 16 ELSE byte_val % 16

\* The status character of an area in the byte of its pair: the left (high) nibble for
\* the even area, the right (low) nibble for the odd one.
AreaStatusNibble(byte_val, area_num) ==
  IF area_num % 2 = 0 THEN byte_val \div 16 ELSE byte_val % 16

\* AREA_STATUS_ARMED is "1", AREA_STATUS_DISARMED is "4".
AreaStatusOf(nibble) ==
  IF nibble = 1 THEN "armed" ELSE IF nibble = 4 THEN "disarmed" ELSE "unknown"

\* get_areas_status: None (<<>>) for no data; IndexError when the block ends inside the
\* five status bytes; otherwise the statuses of the areas up to system_max_areas and the
\* triggered areas read from the 11th byte when the block has one.
GetAreasStatus(r, system_max_areas) ==
  IF ~Truthy(r) THEN <<>>
  ELSE IF Len(r.data) < 5
  THEN <<[exc |-> "IndexError", raw_hex |-> r.data, area_statuses |-> <<>>,
          triggered_areas |-> <<>>]>>
  ELSE LET areas == { a \in 1..10 : a <= system_max_areas }
           triggered_byte_val == r.data[11]
       IN  <<[exc |-> NoException,
              raw_hex |-> r.data,
              area_statuses |->
                [a \in areas |-> AreaStatusOf(AreaStatusNibble(r.data[(a + 1) \div 2], a))],
              triggered_areas |->
                IF Len(r.data) >= 11 /\ triggered_byte_val # 0
                THEN SelectSeq([a \in 1..system_max_areas |-> a],
                               LAMBDA a : (triggered_byte_val \div (2 ^ (a - 1))) % 2 = 1)
                ELSE <<>>]>>

\* ------------------------------------------------------------ zone configuration
\* Byte 8 of a zone's configuration: 0..59 is a number of seconds; from 0x80 on a
\* number of minutes, 0 for 0x80 and value - 0x80 + 1 above it; any other value is
\* reported raw.
TimeDesc(time_val_int) ==
  IF 0 <= time_val_int /\ time_val_int <= 59
  THEN [value |-> time_val_int, unit |-> "seconds"]
  ELSE IF time_val_int >= 128
  THEN LET minutes_val == time_val_int - 128 + (IF time_val_int > 128 THEN 1 ELSE 0)
       IN  [value |-> IF time_val_int = 128 THEN 0 ELSE minutes_val, unit |-> "minutes"]
  ELSE [value |-> time_val_int, unit |-> "raw"]

\* The decoded fields of the 9-byte structure of part 1 (the descriptions looked up
\* from the value are left out).
ParseZoneConfigPart1(zone_data_p1, system_max_areas) ==
  LET area_mask == zone_data_p1[1] + zone_data_p1[2] * 256
      bit(area_idx) == (area_mask \div (2 ^ area_idx)) % 2
      limit == IF system_max_areas < 16 THEN system_max_areas ELSE 16
  IN  [ assigned_areas |-> SelectSeq([a \in 1..limit |-> a], LAMBDA a : bit(a - 1) = 1),
        activation_type_val |-> zone_data_p1[3],
        duration_ms |-> zone_data_p1[7],
        raw_time |-> zone_data_p1[8],
        time |-> TimeDesc(zone_data_p1[8]),
        pulses |-> zone_data_p1[9] ]

\* The decoded fields of the 12-byte structure of part 2.
ParseZoneConfigPart2(item_data_p2) ==
  [ balancing_type_val |-> item_data_p2[6], sensor_type_val |-> item_data_p2[7] ]

\* get_zones_config: None (<<>>) when one of the seven exchanges returned nothing;
\* otherwise one entry per zone index below system_max_zones, with the fields of the
\* parts that hold the zone.
GetZonesConfig(results, system_max_zones, system_max_areas) ==
  IF \E k \in 1..7 : ~Truthy(results[k]) THEN <<>>
  ELSE LET part1 == results[1].data \o results[2].data \o results[3].data \o results[4].data
           part2 == results[5].data \o results[6].data \o results[7].data
           zone(i) ==
             [ zone_index |-> i,
               p1 |-> IF i < 100 /\ (i + 1) * 9 <= Len(part1)
                      THEN <<ParseZoneConfigPart1(SubSeq(part1, i * 9 + 1, i * 9 + 9),
                                                  system_max_areas)>>
                      ELSE <<>>,
               p2 |-> IF i < 50 /\ (i + 1) * 12 <= Len(part2)
                      THEN <<ParseZoneConfigPart2(SubSeq(part2, i * 12 + 1, i * 12 + 12))>>
                      ELSE <<>> ]
       IN  <<[ raw_hex_part1_full_response |-> part1,
               raw_hex_part2_full_response |-> part2,
               zones_config_detailed |-> [k \in 1..system_max_zones |-> zone(k - 1)] ]>>

\* A variant that leaves the PIN out of the block.
ArmPayload_AreasOnly(pin, call) ==
  ConstructAreaActionPayload(call.areas_to_arm, call.areas_to_disarm)

\* arm_disarm_areas: PIN + area payload, sent after the fixed 8-byte command.
ArmPayload(pin, call) == pin \o ConstructAreaActionPayload(call.areas_to_arm, call.areas_to_disarm)

\* activate_scenario: PIN + scenario byte.
ActivatePayload(pin, call) == pin \o <<call.scen>>

\* check_scenario_activation_allowed: prefix + (0x80 + scenario) + suffix + checksum.
CheckCommand(scen) ==
  LET spec_info == COMMAND_SPECS.CHECK_SCENARIO_ACTIVATION_ALLOWED_INFO
      seven_byte_cmd == spec_info.cmd_prefix \o <<128 + scen>> \o spec_info.cmd_suffix
  IN  seven_byte_cmd \o <<calculate_checksum(seven_byte_cmd)>>

\* A variant that appends the checksum of the command for index 0.
EventCommand_StaleChecksum(index_val) ==
  LET spec == COMMAND_SPECS.GET_COMPACT_EVENT_CMD_INFO
      seven_byte_cmd == spec.cmd_base_prefix \o <<(index_val \div 256) % 256, index_val % 256>>
                          \o spec.cmd_base_suffix
  IN  seven_byte_cmd
        \o <<calculate_checksum(spec.cmd_base_prefix \o <<0, 0>> \o spec.cmd_base_suffix)>>

\* _fetch_one_compact_event: prefix + index high byte + index low byte + suffix + checksum.
EventCommand(index_val) ==
  LET spec == COMMAND_SPECS.GET_COMPACT_EVENT_CMD_INFO
      seven_byte_cmd == spec.cmd_base_prefix \o <<(index_val \div 256) % 256, index_val % 256>>
                          \o spec.cmd_base_suffix
  IN  seven_byte_cmd \o <<calculate_checksum(seven_byte_cmd)>>

\* A variant that accepts every scenario index.
ValidScenario_Unchecked(scen) == TRUE

ValidScenario(scen) == 0 <= scen /\ scen < DEFAULT_SYSTEM_MAX_SCENARIOS

\* The command the running operation writes next: catalog key, bytes written, and the
\* buffer size given to recv.
CurrentCommand(f, pin) ==
  LET fixed(key) == [key |-> key, bytes |-> COMMAND_SPECS[key].cmd_full,
                     resp_len |-> COMMAND_SPECS[key].resp_len]
      check == [key |-> "CHECK_SCENARIO_ACTIVATION_ALLOWED_INFO",
                bytes |-> CheckCommand(f.op.scen),
                resp_len |-> COMMAND_SPECS.CHECK_SCENARIO_ACTIVATION_ALLOWED_INFO.resp_len]
  IN  CASE f.op.name = "config" -> fixed(ConfigCommands[f.m][f.j])
        [] f.op.name = "live" -> fixed(LiveCommands[f.m])
        [] f.op.name = "arm" ->
             [key |-> "ARM_DISARM_AREAS_CMD_INFO",
              bytes |-> COMMAND_SPECS.ARM_DISARM_AREAS_CMD_INFO.cmd_full \o ArmPayload(pin, f.op),
              resp_len |-> COMMAND_SPECS.ARM_DISARM_AREAS_CMD_INFO.resp_len]
        [] f.op.name = "activate" /\ f.m = 1 -> check
        [] f.op.name = "activate" /\ f.m = 2 ->
             [key |-> "ACTIVATE_SCENARIO_CMD_INFO",
              bytes |-> COMMAND_SPECS.ACTIVATE_SCENARIO_CMD_INFO.cmd_full \o ActivatePayload(pin, f.op),
              resp_len |-> COMMAND_SPECS.ACTIVATE_SCENARIO_CMD_INFO.resp_len]
        [] f.op.name = "check" -> check
        [] f.op.name = "events" /\ f.m = 1 -> fixed("GET_NEXT_EVENT_POINTER_CMD_INFO")
        [] f.op.name = "events" /\ f.m = 2 ->
             [key |-> "GET_COMPACT_EVENT_CMD_INFO", bytes |-> EventCommand(f.idx),
              resp_len |-> COMMAND_SPECS.GET_COMPACT_EVENT_CMD_INFO.resp_len]

\* ------------------------------------------------------------ operation bodies
Finish(f, value) == [f EXCEPT !.fin = TRUE, !.ret = <<value>>]

\* The entry of cfg["errors"] for a resource whose method returned None.
FailedMessage(key) == "Failed " \o key \o "."

\* A variant that gives up at the first resource that fails.
ConfigMethodReturned_StopsOnFailure(f, res) ==
  LET key == ConfigKeys[f.m]
      g == [f EXCEPT !.cfg[key] = res,
                     !.errors = IF res = IsNone THEN Append(f.errors, FailedMessage(key))
                                ELSE f.errors,
                     !.acc = 0, !.j = 1]
  IN  IF f.m = Len(ConfigKeys) \/ res = IsNone
      THEN Finish(g, [cfg |-> g.cfg, errors |-> g.errors])
      ELSE [g EXCEPT !.m = f.m + 1]

\* get_initial_panel_configuration: one resource method returned `res`.
ConfigMethodReturned(f, res) ==
  LET key == ConfigKeys[f.m]
      g == [f EXCEPT !.cfg[key] = res,
                     !.errors = IF res = IsNone THEN Append(f.errors, FailedMessage(key))
                                ELSE f.errors,
                     !.acc = 0, !.j = 1]
  IN  IF f.m = Len(ConfigKeys)
      THEN Finish(g, [cfg |-> g.cfg, errors |-> g.errors])
      ELSE [g EXCEPT !.m = f.m + 1]

\* A variant that sends the command again when its exchange failed.
ConfigAfter_ResendsFailed(f, r) ==
  LET key == ConfigKeys[f.m]
      total == f.acc + Len(r.data)
  IN  IF ~Truthy(r) THEN f
      ELSE IF key = "scenario_activations" /\ Len(r.data) # 240
           THEN ConfigMethodReturned(f, IsNone)
      ELSE IF f.j < Len(ConfigCommands[f.m])
           THEN [f EXCEPT !.j = f.j + 1, !.acc = total]
      ELSE ConfigMethodReturned(f, Populated(total))

\* A variant that skips a fragment whose exchange failed and goes on with the next one.
ConfigAfter_SkipsFailedFragment(f, r) ==
  LET key == ConfigKeys[f.m]
      total == f.acc + Len(r.data)
      h == IF Truthy(r)
           THEN [f EXCEPT !.parts[key] = Append(@, ConfigCommands[f.m][f.j])]
           ELSE f
  IN  IF key = "scenario_activations" /\ Len(r.data) # 240
      THEN ConfigMethodReturned(f, IsNone)
      ELSE IF f.j < Len(ConfigCommands[f.m])
           THEN [h EXCEPT !.j = f.j + 1, !.acc = total]
      ELSE IF total = 0 THEN ConfigMethodReturned(h, IsNone)
      ELSE ConfigMethodReturned(h, Populated(total))

\* The resource methods get_system_info .. get_keyboard_names: the exchange of
\* fragment j of resource m returned r.
ConfigAfter(f, r) ==
  LET key == ConfigKeys[f.m]
      total == f.acc + Len(r.data)
      h == [f EXCEPT !.parts[key] = Append(@, ConfigCommands[f.m][f.j])]
  IN  IF ~Truthy(r) THEN ConfigMethodReturned(f, IsNone)
      ELSE IF key = "scenario_activations" /\ Len(r.data) # 240
           THEN ConfigMethodReturned(f, IsNone)
      ELSE IF f.j < Len(ConfigCommands[f.m])
           THEN [h EXCEPT !.j = f.j + 1, !.acc = total]
      ELSE ConfigMethodReturned(h, Populated(total))

\* get_live_status_snapshot: the three sub-fetches; get_areas_status indexes the first
\* five data bytes and raises IndexError on a shorter block, which ends the try body.
LiveAfter(f, r) ==
  LET key == LiveKeys[f.m]
      res == IF Truthy(r) THEN Populated(Len(r.data)) ELSE IsNone
      raises == key = "areas_status" /\ Truthy(r) /\ Len(r.data) < 5
      failed == CASE key = "areas_status" -> "Failed to get areas status."
                  [] key = "zones_status" -> "Failed to get zones status."
                  [] key = "active_scenario" -> "Failed to get active scenario."
      g == [f EXCEPT !.cfg[key] = res,
                     !.errors = IF res = IsNone THEN Append(f.errors, failed) ELSE f.errors]
      result(h) == [error |-> "", cfg |-> h.cfg, errors |-> h.errors]
  IN  IF raises
      THEN LET h == [f EXCEPT !.errors = Append(f.errors, "Exception: IndexError")]
           IN  Finish(h, result(h))
      ELSE IF f.m = Len(LiveKeys) THEN Finish(g, result(g))
      ELSE [g EXCEPT !.m = f.m + 1]

\* A variant that accepts any one-byte reply as the acknowledgement.
AckMatches_AnyOneByte(payload, connected, x) ==
  IF SendRawCommand(connected, x) # NoException THEN FALSE
  ELSE LET r == ReadRawResponse(connected, x)
       IN  IF r.exc # NoException THEN FALSE ELSE Len(r.hex) = 1

\* The acknowledgement test of arm_disarm_areas and activate_scenario: the raw read
\* must be one byte equal to the checksum of the payload that was sent.
AckMatches(payload, connected, x) ==
  IF SendRawCommand(connected, x) # NoException THEN FALSE
  ELSE LET r == ReadRawResponse(connected, x)
       IN  IF r.exc # NoException THEN FALSE
           ELSE IF Len(r.hex) = 1 THEN r.hex[1] = calculate_checksum(payload)
           ELSE FALSE

\* The bytes _read_raw_response returned in the exchange (<<bytes>>), <<>> if it raised.
RawRead(connected, x) ==
  IF SendRawCommand(connected, x) # NoException THEN <<>>
  ELSE LET r == ReadRawResponse(connected, x)
       IN  IF r.exc # NoException THEN <<>> ELSE <<r.hex>>

\* execute_arm_disarm_areas
ArmAfter(f, pin, connected, x) ==
  Finish([f EXCEPT !.ack = RawRead(connected, x)],
         AckMatches(ArmPayload(pin, f.op), connected, x))

\* A variant that takes any reply with a valid checksum as permission.
ScenarioAllowed_AnyValidReply(r) == r.ok

\* The data block an exchange returned, as an optional value.
Returned(r) == IF r.ok THEN <<r.data>> ELSE <<>>

\* check_scenario_activation_allowed, once the exchange returned r.
ScenarioAllowed(r) ==
  IF ~r.ok THEN FALSE
  ELSE r.data = Rep(13, 0)

\* execute_activate_scenario: the permission check, then the activation.
ActivateAfter(f, pin, connected, x) ==
  IF f.m = 1
  THEN LET r == SendCommandCore(connected, x)
           is_allowed == ScenarioAllowed(r)
           g == [f EXCEPT !.allowed = <<is_allowed>>, !.check_reply = RawRead(connected, x),
                          !.check_data = Returned(r)]
       IN  IF ~is_allowed THEN Finish(g, FALSE) ELSE [g EXCEPT !.m = 2]
  ELSE Finish([f EXCEPT !.ack = RawRead(connected, x)],
              AckMatches(ActivatePayload(pin, f.op), connected, x))

\* execute_check_scenario_activation_allowed
CheckAfter(f, connected, x) ==
  LET r == SendCommandCore(connected, x)
      is_allowed == ScenarioAllowed(r)
  IN  Finish([f EXCEPT !.allowed = <<is_allowed>>, !.check_reply = RawRead(connected, x),
                       !.check_data = Returned(r)],
             <<is_allowed>>)


\* _get_raw_next_event_pointer: None (<<>>), or the two pointer bytes, high byte first.
GetRawNextEventPointer(r) ==
  IF ~Truthy(r) \/ Len(r.data) < 2 THEN <<>>
  ELSE <<r.data[2], r.data[1]>>

\* A variant that takes the next-event pointer for the most recent event.
ResolveHead_NoDecrement(raw_extended_pointer) ==
  LET x_val_extended_next == raw_extended_pointer[1] * 256 + raw_extended_pointer[2]
  IN  ((x_val_extended_next * 9) + 37380) % 65536

\* Head resolution of get_compact_events: Y = ((X_next - 1) * 9 + 0x9204) & 0xFFFF.
ResolveHead(raw_extended_pointer) ==
  LET x_val_extended_next == raw_extended_pointer[1] * 256 + raw_extended_pointer[2]
      x_val_extended_most_recent == x_val_extended_next - 1
  IN  ((x_val_extended_most_recent * 9) + 37380) % 65536

EventsResult(events, latest) == [events |-> events, latest_event_index_val |-> latest]

\* A variant in which a last-known index takes precedence over the count.
IncrementalMode_LastWins(call) == call.last # <<>>

\* The cursor stop of the walk-back applies when no count was given and a last-known
\* index was.
IncrementalMode(call) == call.count = <<>> /\ call.last # <<>>

\* A variant that is off by one: the cursor itself counts as newer.
NotNewer_Strict(index_val, last_processed) == index_val < last_processed

\* The comparison of an index with the caller's cursor: at or before it.
NotNewer(index_val, last_processed) == index_val <= last_processed

\* A variant that loses the head when the walk-back ends.
WalkEnd_DropsHead(f) == Finish(f, EventsResult(f.events, <<>>))

\* The end of the walk-back: the events retrieved and the resolved head.
WalkEnd(f) == Finish(f, EventsResult(f.events, f.y))

\* A variant that never stops at the caller's cursor.
WalkNext_NoCursorStop(f) ==
  IF f.i >= f.n THEN WalkEnd(f)
  ELSE IF f.idx < 0 THEN WalkEnd(f)
  ELSE [f EXCEPT !.m = 2]

\* A variant that walks on below index 0 (the command's index bytes then wrap).
WalkNext_WrapsBelowZero(f) ==
  IF f.i >= f.n THEN WalkEnd(f)
  ELSE IF IncrementalMode(f.op) /\ NotNewer(f.idx, f.op.last[1]) THEN WalkEnd(f)
  ELSE [f EXCEPT !.m = 2]

\* The top of the walk-back loop for iteration f.i: stop, or fetch one more event.
WalkNext(f) ==
  IF f.i >= f.n THEN WalkEnd(f)
  ELSE IF f.idx < 0 THEN WalkEnd(f)
  ELSE IF IncrementalMode(f.op) /\ NotNewer(f.idx, f.op.last[1]) THEN WalkEnd(f)
  ELSE [f EXCEPT !.m = 2]

\* get_compact_events from head resolution to the first iteration of the walk-back.
EventsAfterPointer(f, r) ==
  LET raw == GetRawNextEventPointer(r)
      y == ResolveHead(raw)
      g == [f EXCEPT !.ptr = raw, !.y = <<y>>, !.idx = y, !.i = 0]
      count == f.op.count
      last == f.op.last
  IN  IF raw = <<>> THEN Finish(f, EventsResult(<<>>, <<>>))
      ELSE IF count # <<>>
           THEN LET c == count[1]
                    clamp == IF c < 1 THEN 1
                             ELSE IF c > MAX_EVENTS_PER_FETCH THEN MAX_EVENTS_PER_FETCH ELSE c
                IN  WalkNext([g EXCEPT !.n = clamp])
      ELSE IF last # <<>>
           THEN IF NotNewer(y, last[1]) THEN Finish(g, EventsResult(<<>>, <<y>>))
                ELSE WalkNext([g EXCEPT !.n = MAX_EVENTS_PER_FETCH])
      ELSE Finish(g, EventsResult(<<>>, <<y>>))

\* A variant that skips an event whose fetch failed and walks on.
EventsAfterFetch_SkipsFailed(f, r) ==
  IF ~Truthy(r) \/ Len(r.data) # 9
  THEN WalkNext([f EXCEPT !.idx = f.idx - 9, !.i = f.i + 1])
  ELSE WalkNext([f EXCEPT !.events = Append(f.events, f.idx),
                          !.idx = f.idx - 9,
                          !.i = f.i + 1])

\* One iteration of the walk-back: _fetch_one_compact_event returned for index f.idx.
EventsAfterFetch(f, r) ==
  IF ~Truthy(r) \/ Len(r.data) # 9 THEN WalkEnd(f)
  ELSE WalkNext([f EXCEPT !.events = Append(f.events, f.idx),
                          !.idx = f.idx - 9,
                          !.i = f.i + 1])

\* get_compact_events after the exchange with outcome x.
EventsAfter(f, connected, x) ==
  LET r == SendCommandCore(connected, x)
  IN  IF f.m = 1
      THEN EventsAfterPointer([f EXCEPT !.ptr_reply = RawRead(connected, x)], r)
      ELSE EventsAfterFetch(f, r)

\* The operation's try body after the exchange with outcome x.
After(f, pin, connected, x) ==
  CASE f.op.name = "config" -> ConfigAfter(f, SendCommandCore(connected, x))
    [] f.op.name = "live" -> LiveAfter(f, SendCommandCore(connected, x))
    [] f.op.name = "arm" -> ArmAfter(f, pin, connected, x)
    [] f.op.name = "activate" -> ActivateAfter(f, pin, connected, x)
    [] f.op.name = "check" -> CheckAfter(f, connected, x)
    [] f.op.name = "events" -> EventsAfter(f, connected, x)

\* The live_status dict as created: its three fields are None.
LiveInitial ==
  [k \in ResultKeys |-> IF \E i \in 1..Len(LiveKeys) : LiveKeys[i] = k THEN IsNone ELSE Unset]

\* The value a public operation returns when connect() fails (the optional boolean of
\* execute_check_scenario_activation_allowed is <<>> for None, <<b>> for a boolean).
ConnectFailureValue(call) ==
  CASE call.name = "config" -> "None"
    [] call.name = "live" ->
         [error |-> "Connection failure", cfg |-> LiveInitial, errors |-> <<>>]
    [] call.name = "arm" -> FALSE
    [] call.name = "activate" -> FALSE
    [] call.name = "check" -> <<>>
    [] call.name = "events" -> EventsResult(<<>>, <<>>)

\* The frame when the try body starts, connect() having returned True.
Start(f) ==
  LET g == [f EXCEPT !.connected = TRUE]
  IN  IF f.op.name = "check" /\ ~ValidScenario(f.op.scen)
      THEN Finish([g EXCEPT !.allowed = <<FALSE>>], <<FALSE>>)
      ELSE IF f.op.name = "live"
      THEN [g EXCEPT !.cfg = LiveInitial]
      ELSE g


\* ------------------------------------------------------------ socket outcomes
SendOutcomes == {"ok", "timeout", "error"}

RecvOutcomes(cmd, payload) ==
  { [send |-> "ok", recv |-> k, bytes |-> <<>>] : k \in {"timeout", "closed", "error"} }
  \cup { [send |-> "ok", recv |-> "data", bytes |-> b] : b \in ReplyBytes(cmd, payload) }

\* ------------------------------------------------------------ transport session
NoSock == "None"

\* A variant that reports success although the socket could not be opened.
Connect_ReportsSuccess(s, outcome) ==
  IF s.is_connected
  THEN [sock |-> s.sock, is_connected |-> TRUE, result |-> TRUE, opened |-> FALSE]
  ELSE IF outcome = "ok"
  THEN [sock |-> "socket", is_connected |-> TRUE, result |-> TRUE, opened |-> TRUE]
  ELSE [sock |-> NoSock, is_connected |-> FALSE, result |-> TRUE, opened |-> TRUE]

\* A variant that opens a socket on every call.
Connect_Reopens(s, outcome) ==
  IF outcome = "ok"
  THEN [sock |-> "socket", is_connected |-> TRUE, result |-> TRUE, opened |-> TRUE]
  ELSE [sock |-> NoSock, is_connected |-> FALSE, result |-> FALSE, opened |-> TRUE]

\* connect(): no-op returning True when already connected; otherwise a socket is
\* created (opened) and a socket error leaves the session not connected.
Connect(s, outcome) ==
  IF s.is_connected
  THEN [sock |-> s.sock, is_connected |-> TRUE, result |-> TRUE, opened |-> FALSE]
  ELSE IF outcome = "ok"
  THEN [sock |-> "socket", is_connected |-> TRUE, result |-> TRUE, opened |-> TRUE]
  ELSE [sock |-> NoSock, is_connected |-> FALSE, result |-> FALSE, opened |-> TRUE]

\* A variant whose cleanup is skipped when close() reports an error.
Disconnect_KeepsOnCloseError(s, close) ==
  IF s.sock # NoSock /\ close = "ok" THEN [sock |-> NoSock, is_connected |-> FALSE]
  ELSE s

\* A variant that drops the socket and keeps the connected flag.
Disconnect_KeepsFlag(s, close) ==
  IF s.sock # NoSock THEN [sock |-> NoSock, is_connected |-> s.is_connected]
  ELSE s

\* disconnect(): closes the socket if there is one; the session ends not connected
\* whether or not close() reports an error.
Disconnect(s, close) ==
  IF s.sock # NoSock THEN [sock |-> NoSock, is_connected |-> FALSE]
  ELSE s

Free == "free"

\* A variant without mutual exclusion.
LockAvailable_Ignored(lock) == TRUE

\* threading.Lock: `with self._api_lock` proceeds only when no thread holds it.
LockAvailable(lock) == lock = Free

\* A variant that returns without releasing.
LockReleased_KeptOnReturn(lock) == lock

\* Leaving the `with` block releases the lock.
LockReleased(lock) == Free


\* ------------------------------------------------------------ state
\* No _async_update_data call is running and none has returned yet.
NoUpdate == [at |-> "idle", failed |-> FALSE, event_result |-> <<>>, ret |-> <<>>]

VARIABLES
  pin_hex,        \* self.pin_hex: the 6 PIN bytes
  sock,           \* self.sock: NoSock or the open socket
  is_connected,   \* self._is_connected
  api_lock,       \* self._api_lock: Free or the caller holding it
  pc,             \* where each caller is in the public operation it called
  fr,             \* the frame (local variables) of each caller's operation
  wire,           \* the commands written on the current connection, in order
  net,            \* reply bytes the panel has sent that have not reached the socket yet
  rx,             \* reply bytes in the socket's receive queue, not read yet
  reads,          \* the recv calls of the current connection that returned bytes, in order
  last_known_event_index_val,  \* the coordinator's cursor: <<>> (None) or <<index>>
  update,         \* the coordinator's _async_update_data call: where it is, what it returned
  skipped,        \* the events the last early-ended incremental poll left behind
  coordinator_data,   \* coordinator.data as the entities see it: <<>> (None) or <<dict>>
  event_log,      \* the event-log sensor's _event_log
  current_ha_state_enum,  \* the alarm panel entity's _current_ha_state_enum
  scenario_mappings   \* the entities' options: <<>> before the platforms are set up

\* The byte stream from the panel to the socket. Each byte is <<value, k>>, k being the
\* position in `wire` of the command it was sent in reply to.
stream == <<net, rx, reads>>

\* The integration's state outside the engine: the coordinator and the entities.
hass == <<last_known_event_index_val, update, skipped, coordinator_data, event_log,
          current_ha_state_enum, scenario_mappings>>

vars == <<pin_hex, sock, is_connected, api_lock, pc, fr, wire, stream, hass>>

PinInputs == { <<1, 2, 3, 4>> }

Init ==
  /\ pin_hex \in { format_pin_code(p) : p \in PinInputs }
  /\ sock = NoSock
  /\ is_connected = FALSE
  /\ api_lock = Free
  /\ pc = [c \in Callers |-> "idle"]
  /\ fr = [c \in Callers |-> NoFrame]
  /\ wire = <<>>
  /\ net = <<>>
  /\ rx = <<>>
  /\ reads = <<>>
  /\ last_known_event_index_val = <<>>
  /\ update = NoUpdate
  /\ skipped = <<>>
  /\ coordinator_data = <<>>
  /\ event_log = <<>>
  /\ current_ha_state_enum = "DISARMED"
  /\ scenario_mappings = <<>>

Connected == is_connected /\ sock # NoSock

Session == [sock |-> sock, is_connected |-> is_connected]

\* The payload that follows the 8-byte command of an action command.
CurrentPayload(f) ==
  CASE f.op.name = "arm" -> ArmPayload(pin_hex, f.op)
    [] f.op.name = "activate" /\ f.m = 2 -> ActivatePayload(pin_hex, f.op)
    [] OTHER -> <<>>

BodyPc(f) == IF f.fin THEN "finally" ELSE "send"

\* A thread calls one of the public operations, with arguments from `calls`, and
\* reaches `with self._api_lock`.
CallFrom(c, calls) ==
  /\ pc[c] = "idle"
  /\ \E call \in calls : fr' = [fr EXCEPT ![c] = NewFrame(call)]
  /\ pc' = [pc EXCEPT ![c] = "lock"]
  /\ UNCHANGED <<pin_hex, sock, is_connected, api_lock, wire, stream, hass>>

Call(c) == CallFrom(c, Calls)

\* The thread acquires the engine lock.
Acquire(c) ==
  /\ pc[c] = "lock"
  /\ LockAvailable(api_lock)
  /\ api_lock' = c
  /\ pc' = [pc EXCEPT ![c] = "enter"]
  /\ UNCHANGED <<pin_hex, sock, is_connected, fr, wire, stream, hass>>

\* Inside the lock: execute_activate_scenario validates the scenario index and returns
\* False on an invalid one; otherwise the operation connects, and returns its failure
\* value when connect() fails.
Enter(c) ==
  /\ pc[c] = "enter"
  /\ LET f == fr[c]
     IN  IF f.op.name = "activate" /\ ~ValidScenario(f.op.scen)
         THEN /\ fr' = [fr EXCEPT ![c] = [f EXCEPT !.ret = <<FALSE>>]]
              /\ pc' = [pc EXCEPT ![c] = "exit"]
              /\ UNCHANGED <<sock, is_connected>>
         ELSE \E outcome \in {"ok", "error"} :
                LET s == Connect(Session, outcome)
                    h == [f EXCEPT !.connects = f.connects + 1,
                                   !.opened = f.opened + (IF s.opened THEN 1 ELSE 0)]
                    g == Start(h)
                IN  /\ sock' = s.sock
                    /\ is_connected' = s.is_connected
                    /\ IF s.result
                       THEN /\ fr' = [fr EXCEPT ![c] = g]
                            /\ pc' = [pc EXCEPT ![c] = BodyPc(g)]
                       ELSE /\ fr' = [fr EXCEPT ![c] =
                                        [h EXCEPT !.ret = <<ConnectFailureValue(h.op)>>]]
                            /\ pc' = [pc EXCEPT ![c] = "exit"]
  /\ UNCHANGED <<pin_hex, api_lock, wire, stream, hass>>

\* _send_raw_command: the next command of the operation is written with sendall; a
\* failed send ends the exchange.
Send(c) ==
  /\ pc[c] = "send"
  /\ LET f == fr[c]
         cmd == CurrentCommand(f, pin_hex)
     IN  \E outcome \in SendOutcomes :
           LET x == [send |-> outcome, recv |-> "none", bytes |-> <<>>]
               g == After(f, pin_hex, Connected, x)
           IN  /\ wire' = IF Connected
                          THEN Append(wire, [by |-> c, key |-> cmd.key, bytes |-> cmd.bytes])
                          ELSE wire
               /\ IF SendRawCommand(Connected, x) = NoException
                  THEN /\ pc' = [pc EXCEPT ![c] = "recv"]
                       /\ fr' = fr
                  ELSE /\ pc' = [pc EXCEPT ![c] = BodyPc(g)]
                       /\ fr' = [fr EXCEPT ![c] = g]
  /\ UNCHANGED <<pin_hex, sock, is_connected, api_lock, stream, hass>>

\* _read_raw_response and what the operation does with the reply, up to its next
\* command or to the end of its try body.
Recv(c) ==
  /\ pc[c] = "recv"
  /\ LET f == fr[c]
         cmd == CurrentCommand(f, pin_hex)
     IN  \E x \in RecvOutcomes(cmd, CurrentPayload(f)) :
           LET g == After(f, pin_hex, Connected, x)
           IN  /\ fr' = [fr EXCEPT ![c] = g]
               /\ pc' = [pc EXCEPT ![c] = BodyPc(g)]
  /\ UNCHANGED <<pin_hex, sock, is_connected, api_lock, wire, stream, hass>>

\* The socket is gone: what it had queued, and what was on its way to it, is dropped.
StreamClosed ==
  /\ net' = <<>>
  /\ rx' = <<>>
  /\ reads' = <<>>

\* The finally clause: self.disconnect().
Finally(c) ==
  /\ pc[c] = "finally"
  /\ \E close \in {"ok", "error"} :
       LET s == Disconnect(Session, close)
       IN  /\ sock' = s.sock
           /\ is_connected' = s.is_connected
  /\ wire' = <<>>
  /\ StreamClosed
  /\ pc' = [pc EXCEPT ![c] = "exit"]
  /\ UNCHANGED <<pin_hex, api_lock, fr, hass>>

\* The operation returns: the `with` block is left and the lock released.
Return(c) ==
  /\ pc[c] = "exit"
  /\ api_lock' = LockReleased(api_lock)
  /\ pc' = [pc EXCEPT ![c] = "idle"]
  /\ fr' = [fr EXCEPT ![c] = NoFrame]
  /\ UNCHANGED <<pin_hex, sock, is_connected, wire, stream, hass>>

Step(c) == Enter(c) \/ Send(c) \/ Recv(c) \/ Finally(c) \/ Return(c)

Next == \E c \in Callers : Call(c) \/ Acquire(c) \/ Step(c)

Spec == Init /\ [][Next]_vars

\* The calls of the fair specification: every public operation, with its early returns.
LiveCalls ==
  { call \in Calls :
      \/ call.name \in {"config", "live"}
      \/ call.name = "arm" /\ call.areas_to_arm = {1, 3}
      \/ call.name = "activate" /\ call.scen \in {0, 30}
      \/ call.name = "check" /\ call.scen = 0
      \/ call.name = "events" /\ <<call.count, call.last>> \in {<<<<MaxCount>>, <<>>>>, <<<<>>, <<41574>>>>} }

CallLive(c) == CallFrom(c, LiveCalls)

LiveNext == \E c \in Callers : CallLive(c) \/ Acquire(c) \/ Step(c)

\* Fair scheduling: a thread that can take a step of its operation eventually takes it,
\* and a thread waiting for the lock gets it if the lock is free again and again.
Fairness == \A c \in Callers : WF_vars(Step(c)) /\ SF_vars(Acquire(c))

LiveSpec == Init /\ [][LiveNext]_vars /\ Fairness

\* ------------------------------------------------------------ the reply stream
\* TCP delivers the panel's replies as a byte stream: sock.recv(buffer_size) returns
\* the bytes that have arrived so far, at most buffer_size of them, whichever command
\* they answer, and raises socket.timeout when none arrives within the timeout.

\* The operations followed on the byte stream: the live snapshot (three commands), the
\* permission check, and an event fetch of MaxCount events.
StreamCalls ==
  { call \in Calls :
      \/ call.name = "live"
      \/ call.name = "check" /\ call.scen = 0
      \/ call.name = "events" /\ call.count = <<MaxCount>> /\ call.last = <<>> }

CallStream(c) == CallFrom(c, StreamCalls)

\* The complete replies the panel may send to the command, resp_len bytes each.
PanelReplies(cmd) == { b \in DataReplies[cmd.key] : Len(b) = cmd.resp_len }

\* _send_raw_command on the byte stream: a command that was written is answered by the
\* panel with a complete reply, which is then on its way to the socket.
StreamSend(c) ==
  /\ pc[c] = "send"
  /\ LET f == fr[c]
         cmd == CurrentCommand(f, pin_hex)
     IN  \E outcome \in SendOutcomes :
           LET x == [send |-> outcome, recv |-> "none", bytes |-> <<>>]
               g == After(f, pin_hex, Connected, x)
               written == Append(wire, [by |-> c, key |-> cmd.key, bytes |-> cmd.bytes])
           IN  /\ wire' = IF Connected THEN written ELSE wire
               /\ IF SendRawCommand(Connected, x) = NoException
                  THEN /\ pc' = [pc EXCEPT ![c] = "recv"]
                       /\ fr' = fr
                       /\ \E b \in PanelReplies(cmd) :
                            net' = net \o [k \in 1..Len(b) |-> <<b[k], Len(written)>>]
                  ELSE /\ pc' = [pc EXCEPT ![c] = BodyPc(g)]
                       /\ fr' = [fr EXCEPT ![c] = g]
                       /\ net' = net
  /\ UNCHANGED <<pin_hex, sock, is_connected, api_lock, rx, reads, hass>>

\* The sizes of the segment in which the first bytes on their way may reach the socket:
\* everything, one byte, or all but one byte.
SegmentSizes(n) == {k \in {1, n - 1, n} : k >= 1}

\* Bytes on their way reach the socket's receive queue.
Arrive ==
  /\ net # <<>>
  /\ \E k \in SegmentSizes(Len(net)) :
       /\ rx' = rx \o SubSeq(net, 1, k)
       /\ net' = SubSeq(net, k + 1, Len(net))
  /\ UNCHANGED <<pin_hex, sock, is_connected, api_lock, pc, fr, wire, reads, hass>>

\* _read_raw_response on the byte stream, and what the operation does with the reply:
\* recv returns the first bytes of the receive queue, at most buffer_size, and times out
\* on an empty queue.
StreamRecv(c) ==
  /\ pc[c] = "recv"
  /\ LET f == fr[c]
         cmd == CurrentCommand(f, pin_hex)
         n == IF Len(rx) < cmd.resp_len THEN Len(rx) ELSE cmd.resp_len
         raw_response == SubSeq(rx, 1, n)
         x == IF rx = <<>>
              THEN [send |-> "ok", recv |-> "timeout", bytes |-> <<>>]
              ELSE [send |-> "ok", recv |-> "data",
                    bytes |-> [k \in 1..n |-> raw_response[k][1]]]
         g == After(f, pin_hex, Connected, x)
     IN  /\ fr' = [fr EXCEPT ![c] = g]
         /\ pc' = [pc EXCEPT ![c] = BodyPc(g)]
         /\ rx' = SubSeq(rx, n + 1, Len(rx))
         /\ reads' = IF rx = <<>> THEN reads
                     ELSE Append(reads, [cmd |-> Len(wire),
                                         of |-> {raw_response[k][2] : k \in 1..n}])
  /\ UNCHANGED <<pin_hex, sock, is_connected, api_lock, wire, net, hass>>

StreamCallers == {"poll"}

StreamNext ==
  \/ \E c \in StreamCallers :
       \/ CallStream(c) \/ Acquire(c) \/ Enter(c) \/ StreamSend(c) \/ StreamRecv(c)
       \/ Finally(c) \/ Return(c)
  \/ Arrive

StreamSpec == Init /\ [][StreamNext]_vars

\* ------------------------------------------------------------ the session methods
\* connect() and disconnect() are public methods of the engine; a client may call them
\* directly, in any order and in any state of the session.
MaxDirectCalls == 3

DirectCall(name) == [NoCall EXCEPT !.name = name]

\* A thread calls connect(); the frame keeps what the call returned and how many sockets
\* the thread's calls created.
DirectConnect(c) ==
  /\ pc[c] = "idle"
  /\ fr[c].connects < MaxDirectCalls
  /\ \E outcome \in {"ok", "error"} :
       LET s == Connect(Session, outcome)
       IN  /\ sock' = s.sock
           /\ is_connected' = s.is_connected
           /\ fr' = [fr EXCEPT ![c] =
                      [fr[c] EXCEPT !.op = DirectCall("connect"),
                                    !.connects = fr[c].connects + 1,
                                    !.opened = fr[c].opened + (IF s.opened THEN 1 ELSE 0),
                                    !.ret = <<s.result>>]]
  /\ UNCHANGED <<pin_hex, api_lock, pc, wire, stream, hass>>

\* A thread calls disconnect(), which returns nothing.
DirectDisconnect(c) ==
  /\ pc[c] = "idle"
  /\ \E close \in {"ok", "error"} :
       LET s == Disconnect(Session, close)
       IN  /\ sock' = s.sock
           /\ is_connected' = s.is_connected
  /\ fr' = [fr EXCEPT ![c] = [fr[c] EXCEPT !.op = DirectCall("disconnect"), !.ret = <<>>]]
  /\ UNCHANGED <<pin_hex, api_lock, pc, wire, stream, hass>>

DirectNext == \E c \in Callers : DirectConnect(c) \/ DirectDisconnect(c)

DirectSpec == Init /\ [][DirectNext]_vars

\* ------------------------------------------------------------ methods called directly
\* The static methods and the decoding methods of the engine are public; a thread may
\* call them directly, with arguments and panel data from bounded sets.

\* Byte sequences given to calculate_checksum: the empty one, short ones over the
\* extreme byte values, command bodies, and a long one.
ChecksumInputs ==
  {<<>>}
  \cup { <<a>> : a \in {0, 1, 127, 128, 255} }
  \cup { <<a, b>> : a, b \in {0, 1, 128, 255} }
  \cup { <<255, 255, 2>>, <<0, 0, 0, 31, 249, 128, 13>>, <<0, 1, 1, 162, 120, 0, 9>>,
         Rep(250, 255), Rep(12, 0) \o <<4>> }

\* A thread calls calculate_checksum(hex_data_string); the frame keeps the argument and
\* the two-character string returned, as its hexadecimal digits.
CallChecksum(c) ==
  /\ pc[c] = "idle"
  /\ \E hex_data \in ChecksumInputs :
       fr' = [fr EXCEPT ![c] =
                [NewFrame(DirectCall("calculate_checksum")) EXCEPT
                   !.arg = <<hex_data>>,
                   !.ret = <<Format02x(calculate_checksum(hex_data))>>]]
  /\ UNCHANGED <<pin_hex, sock, is_connected, api_lock, pc, wire, stream, hass>>

\* PINs given to format_pin_code, as their decimal digits: none, one to six digits, and
\* seven digits.
PinStrings ==
  { <<>>, <<0>>, <<9>>, <<1, 2>>, <<1, 2, 3>>, <<1, 2, 3, 4>>, <<1, 2, 3, 5>>, <<0, 0, 0, 0>>,
    <<1, 2, 3, 4, 5>>, <<1, 2, 3, 4, 5, 6>>, <<0, 0, 0, 0, 0, 0>>, <<9, 9, 9, 9, 9, 9>>,
    <<1, 2, 3, 4, 5, 6, 7>> }

\* A thread calls format_pin_code(pin_str); the frame keeps the argument and the PIN
\* block returned.
CallFormatPin(c) ==
  /\ pc[c] = "idle"
  /\ \E pin_str \in PinStrings :
       fr' = [fr EXCEPT ![c] =
                [NewFrame(DirectCall("format_pin_code")) EXCEPT
                   !.arg = <<pin_str>>,
                   !.ret = <<format_pin_code(pin_str)>>]]
  /\ UNCHANGED <<pin_hex, sock, is_connected, api_lock, pc, wire, stream, hass>>

\* (areas_to_arm, areas_to_disarm) pairs given to _construct_area_action_payload: every
\* pair of disjoint sets over the first and the last pair of areas.
AreaActionInputs ==
  { <<a, d>> : a \in SUBSET {1, 2, 9, 10}, d \in SUBSET {1, 2, 9, 10} } \ 
    { <<a, d>> \in (SUBSET {1, 2, 9, 10}) \X (SUBSET {1, 2, 9, 10}) : a \cap d # {} }

\* A thread builds the area payload of an arm/disarm command; the frame keeps the two
\* area sets and the 8 bytes built.
CallConstructPayload(c) ==
  /\ pc[c] = "idle"
  /\ \E areas \in AreaActionInputs :
       fr' = [fr EXCEPT ![c] =
                [NewFrame(DirectCall("_construct_area_action_payload")) EXCEPT
                   !.arg = <<areas>>,
                   !.ret = <<ConstructAreaActionPayload(areas[1], areas[2])>>]]
  /\ UNCHANGED <<pin_hex, sock, is_connected, api_lock, pc, wire, stream, hass>>

\* A thread calls connect(); the decoding methods below exchange one command each and
\* return None unless the engine is connected.
MethodConnect(c) ==
  /\ pc[c] = "idle"
  /\ \E outcome \in {"ok", "error"} :
       LET s == Connect(Session, outcome)
       IN  /\ sock' = s.sock
           /\ is_connected' = s.is_connected
           /\ fr' = [fr EXCEPT ![c] =
                      [NewFrame(DirectCall("connect")) EXCEPT !.ret = <<s.result>>]]
  /\ UNCHANGED <<pin_hex, api_lock, pc, wire, stream, hass>>

\* The exchanges of a decoding method: the reply b read in full, or a read that timed out.
ExchangesWith(replies) ==
  { [send |-> "ok", recv |-> "data", bytes |-> b] : b \in replies }
  \cup { [send |-> "ok", recv |-> "timeout", bytes |-> <<>>] }

\* The 26 data bytes of a zone status reply: all zones clear; every status digit in
\* every position of a group of four zones; digits that are no status.
ZoneStatusData ==
  { Rep(26, 85),
    [k \in 1..26 |-> CASE k % 4 = 1 -> 86 [] k % 4 = 2 -> 154 [] k % 4 = 3 -> 165 [] OTHER -> 105],
    [k \in 1..26 |-> CASE k = 1 -> 15 [] k = 2 -> 80 [] k = 25 -> 91 [] OTHER -> 101] }

ZoneStatusReplies ==
  { WithChecksum(d) : d \in ZoneStatusData }
  \cup { BadChecksum(Rep(26, 85)), WithChecksum(Rep(5, 85)) }

\* Values of system_max_zones the engine may be constructed with.
ZoneLimits == {0, 1, 4, 50, 99, 100, 120}

\* get_zones_status for every reply and every limit, tabulated once.
ZonesStatusTable ==
  [connected \in BOOLEAN |->
     [x \in ExchangesWith(ZoneStatusReplies) |->
        [system_max_zones \in ZoneLimits |->
           GetZonesStatus(SendCommandCore(connected, x), system_max_zones)]]]

\* A thread calls get_zones_status() on an engine constructed with system_max_zones;
\* the frame keeps the limit, the data block the exchange returned, and the result.
CallZonesStatus(c) ==
  /\ pc[c] = "idle"
  /\ \E x \in ExchangesWith(ZoneStatusReplies), system_max_zones \in ZoneLimits :
       fr' = [fr EXCEPT ![c] =
                [NewFrame(DirectCall("get_zones_status")) EXCEPT
                   !.arg = <<[limit |-> system_max_zones,
                              data |-> Returned(SendCommandCore(Connected, x))]>>,
                   !.ret = <<ZonesStatusTable[Connected][x][system_max_zones]>>]]
  /\ UNCHANGED <<pin_hex, sock, is_connected, api_lock, pc, wire, stream, hass>>

\* Byte 8 of the configuration of zone 0, 1, 2, ...: the ends of the seconds range, the
\* values between the ranges, and the start and the end of the minutes range.
TimeValues == <<0, 1, 59, 60, 127, 128, 129, 130, 255>>

\* The 900 bytes of part 1 (100 zones, 9 bytes each) and the 600 bytes of part 2 (50
\* items, 12 bytes each) as a panel may hold them.
ConfigPart1Data ==
  [k \in 1..900 |->
     LET i == (k - 1) \div 9
         b == ((k - 1) % 9) + 1
     IN  CASE b = 1 -> 1 + (i % 4) * 64
           [] b = 2 -> IF i % 3 = 0 THEN 2 ELSE 0
           [] b = 3 -> i % 4
           [] b = 7 -> 10 + (i % 5)
           [] b = 8 -> TimeValues[(i % Len(TimeValues)) + 1]
           [] b = 9 -> i % 3
           [] OTHER -> 0]

ConfigPart2Data ==
  [k \in 1..600 |->
     LET i == (k - 1) \div 12
         b == ((k - 1) % 12) + 1
     IN  CASE b = 6 -> i % 3 [] b = 7 -> i % 5 [] OTHER -> 0]

\* The seven replies of get_zones_config when every fragment arrives whole.
ZonesConfigReplies ==
  << WithChecksum(SubSeq(ConfigPart1Data, 1, 250)), WithChecksum(SubSeq(ConfigPart1Data, 251, 500)),
     WithChecksum(SubSeq(ConfigPart1Data, 501, 750)), WithChecksum(SubSeq(ConfigPart1Data, 751, 900)),
     WithChecksum(SubSeq(ConfigPart2Data, 1, 250)), WithChecksum(SubSeq(ConfigPart2Data, 251, 500)),
     WithChecksum(SubSeq(ConfigPart2Data, 501, 600)) >>

Delivered(b) == [send |-> "ok", recv |-> "data", bytes |-> b]
TimedOut == [send |-> "ok", recv |-> "timeout", bytes |-> <<>>]

\* The seven exchanges of one get_zones_config call: all answered; one of them timed
\* out; the last fragment of a part answered with fewer entries.
ZonesConfigExchanges ==
  LET ok == [k \in 1..7 |-> Delivered(ZonesConfigReplies[k])]
  IN  {ok}
      \cup { [ok EXCEPT ![k] = TimedOut] : k \in {1, 4, 5, 7} }
      \cup { [ok EXCEPT ![4] = Delivered(WithChecksum(SubSeq(ConfigPart1Data, 751, 768)))],
             [ok EXCEPT ![7] = Delivered(WithChecksum(SubSeq(ConfigPart2Data, 501, 512)))] }

\* Values of system_max_zones for get_zones_config.
ConfigZoneLimits == {0, 9, 50, 86, 100, 101}

\* get_zones_config for every sequence of exchanges and every limit, tabulated once.
ZonesConfigTable ==
  [connected \in BOOLEAN |->
     [xs \in ZonesConfigExchanges |->
        [system_max_zones \in ConfigZoneLimits |->
           GetZonesConfig([k \in 1..7 |-> SendCommandCore(connected, xs[k])],
                          system_max_zones, DEFAULT_SYSTEM_MAX_AREAS)]]]

\* A thread calls get_zones_config() on an engine constructed with system_max_zones;
\* the frame keeps the limit and the result.
CallZonesConfig(c) ==
  /\ pc[c] = "idle"
  /\ \E xs \in ZonesConfigExchanges, system_max_zones \in ConfigZoneLimits :
       fr' = [fr EXCEPT ![c] =
                [NewFrame(DirectCall("get_zones_config")) EXCEPT
                   !.arg = <<[limit |-> system_max_zones]>>,
                   !.ret = <<ZonesConfigTable[Connected][xs][system_max_zones]>>]]
  /\ UNCHANGED <<pin_hex, sock, is_connected, api_lock, pc, wire, stream, hass>>

\* The data of an area status reply: mixed statuses with areas 1 and 3 triggered; all
\* disarmed with areas 1 and 8 triggered; nothing triggered; every bit of the triggered
\* byte set; a block that ends before the triggered byte; a block shorter than the
\* five status bytes.
AreaStatusData ==
  { <<65, 20, 17, 68, 15, 0, 0, 0, 0, 0, 5, 0, 0, 0, 0, 0>>,
    Rep(10, 68) \o <<129>> \o Rep(5, 0),
    <<20, 65, 244, 1, 64>> \o Rep(11, 0),
    Rep(5, 17) \o Rep(5, 0) \o <<255>> \o Rep(5, 0),
    Rep(10, 17),
    <<17, 17, 17>> }

AreaStatusReplies ==
  { WithChecksum(d) : d \in AreaStatusData } \cup { BadChecksum(Rep(16, 17)) }

\* Values of system_max_areas the engine may be constructed with.
AreaLimits == {0, 5, 8, 10, 16}

\* get_areas_status for every reply and every limit, tabulated once.
AreasStatusTable ==
  [connected \in BOOLEAN |->
     [x \in ExchangesWith(AreaStatusReplies) |->
        [system_max_areas \in AreaLimits |->
           GetAreasStatus(SendCommandCore(connected, x), system_max_areas)]]]

\* A thread calls get_areas_status() on an engine constructed with system_max_areas;
\* the frame keeps the limit, the data block the exchange returned, and the result.
CallAreasStatus(c) ==
  /\ pc[c] = "idle"
  /\ \E x \in ExchangesWith(AreaStatusReplies), system_max_areas \in AreaLimits :
       fr' = [fr EXCEPT ![c] =
                [NewFrame(DirectCall("get_areas_status")) EXCEPT
                   !.arg = <<[limit |-> system_max_areas,
                              data |-> Returned(SendCommandCore(Connected, x))]>>,
                   !.ret = <<AreasStatusTable[Connected][x][system_max_areas]>>]]
  /\ UNCHANGED <<pin_hex, sock, is_connected, api_lock, pc, wire, stream, hass>>

\* The methods called here share no state, so one calling thread shows all they do.
MethodCallers == {"user"}

MethodNext ==
  \E c \in MethodCallers :
    \/ CallChecksum(c) \/ CallFormatPin(c) \/ CallConstructPayload(c)
    \/ MethodConnect(c) \/ CallZonesStatus(c) \/ CallZonesConfig(c) \/ CallAreasStatus(c)

MethodSpec == Init /\ [][MethodNext]_vars

\* ------------------------------------------------------------ the coordinator
\* InimDataUpdateCoordinator._async_update_data runs the engine's live snapshot and then
\* its event fetch, each as a job of the executor thread "poll", while the user's
\* thread may call the engine too.

\* config_entry.options[CONF_EVENT_LOG_SIZE]: the configured size of the event log.
EventLogSize == 2

\* The operations the user's thread calls while the coordinator polls.
UserCalls == { call \in Calls : call.name = "check" /\ call.scen = 0 }

CallUser(c) == CallFrom(c, UserCalls)

\* The arguments of execute_get_compact_events: the configured size as count when no
\* index is known yet, the last known index alone otherwise.
EventsCall(last_known) ==
  LET api_call_count_param == IF last_known = <<>> THEN <<EventLogSize>> ELSE <<>>
      api_call_last_index_param == IF last_known = <<>> THEN <<>> ELSE last_known
  IN  [NoCall EXCEPT !.name = "events", !.count = api_call_count_param,
                     !.last = api_call_last_index_param]

\* A variant that gives up no poll on a connection failure.
StatusFailed_Never(status_data) == FALSE

\* The live snapshot makes the poll fail (UpdateFailed) when it reports a connection
\* failure; the engine never returns None for it.
StatusFailed(status_data) == status_data.error = "Connection failure"

\* A variant that moves the cursor to the oldest event returned.
CursorAfter_OldestReturned(last_known, event_result) ==
  IF event_result.events # <<>>
  THEN <<event_result.events[Len(event_result.events)]>>
  ELSE IF event_result.latest_event_index_val # <<>>
       THEN event_result.latest_event_index_val
       ELSE last_known

\* A variant that forgets the cursor when the result carries no head.
CursorAfter_ForgetsOnFailure(last_known, event_result) ==
  event_result.latest_event_index_val

\* The cursor after an event fetch: the head the result carries, if any.
CursorAfter(last_known, event_result) ==
  LET panel_latest_index == event_result.latest_event_index_val
  IN  IF panel_latest_index # <<>> THEN panel_latest_index ELSE last_known

\* _async_update_data starts: get_live_status_snapshot is handed to the executor.
UpdateStart(c) ==
  /\ update.at = "idle"
  /\ pc[c] = "idle"
  /\ update' = [NoUpdate EXCEPT !.at = "status"]
  /\ fr' = [fr EXCEPT ![c] = NewFrame([NoCall EXCEPT !.name = "live"])]
  /\ pc' = [pc EXCEPT ![c] = "lock"]
  /\ UNCHANGED <<pin_hex, sock, is_connected, api_lock, wire, stream,
                 last_known_event_index_val, skipped, coordinator_data, event_log,
                 current_ha_state_enum, scenario_mappings>>

\* get_live_status_snapshot returns (the engine's lock is released): on a connection
\* failure the update fails; otherwise execute_get_compact_events is handed to the
\* executor with the arguments the cursor selects.
StatusReturned(c) ==
  /\ update.at = "status"
  /\ pc[c] = "exit"
  /\ api_lock' = LockReleased(api_lock)
  /\ LET status_data == fr[c].ret[1]
     IN  IF StatusFailed(status_data)
         THEN /\ update' = [NoUpdate EXCEPT !.failed = TRUE]
              /\ fr' = [fr EXCEPT ![c] = NoFrame]
              /\ pc' = [pc EXCEPT ![c] = "idle"]
         ELSE /\ update' = [NoUpdate EXCEPT !.at = "events", !.ret = <<status_data>>]
              /\ fr' = [fr EXCEPT ![c] = NewFrame(EventsCall(last_known_event_index_val))]
              /\ pc' = [pc EXCEPT ![c] = "lock"]
  /\ UNCHANGED <<pin_hex, sock, is_connected, wire, stream,
                 last_known_event_index_val, skipped, coordinator_data, event_log,
                 current_ha_state_enum, scenario_mappings>>

\* What an incremental fetch left behind: the result carries a head, and the walk-back
\* ended (on a failed fetch or on the limit) at an index still above the caller's index.
LeftBehind(f) ==
  IF /\ IncrementalMode(f.op) /\ f.ret[1].latest_event_index_val # <<>>
     /\ f.idx > f.op.last[1]
  THEN <<[after |-> f.op.last[1], upto |-> f.idx]>>
  ELSE <<>>

\* execute_get_compact_events returns: the cursor moves to the head the result carries,
\* and the update returns the live snapshot with this poll's events and the cursor.
EventsReturned(c) ==
  /\ update.at = "events"
  /\ pc[c] = "exit"
  /\ api_lock' = LockReleased(api_lock)
  /\ LET event_result == fr[c].ret[1]
         cursor == CursorAfter(last_known_event_index_val, event_result)
         current_data == [status |-> update.ret[1],
                          processed_events |-> event_result.events,
                          latest_event_index_val |-> cursor]
     IN  /\ last_known_event_index_val' = cursor
         /\ update' = [NoUpdate EXCEPT !.event_result = <<event_result>>,
                                       !.ret = <<current_data>>]
         /\ skipped' = IF LeftBehind(fr[c]) # <<>> THEN LeftBehind(fr[c])
                       ELSE IF skipped # <<>> /\ cursor # <<>> /\ cursor[1] < skipped[1].upto
                            THEN <<>>
                            ELSE skipped
  /\ fr' = [fr EXCEPT ![c] = NoFrame]
  /\ pc' = [pc EXCEPT ![c] = "idle"]
  /\ UNCHANGED <<pin_hex, sock, is_connected, wire, stream, coordinator_data, event_log,
                 current_ha_state_enum, scenario_mappings>>

\* The executor thread that runs the coordinator's jobs, and the user's thread.
PollThread == "poll"
UserThread == "user"

CoordNext ==
  \/ UpdateStart(PollThread) \/ StatusReturned(PollThread) \/ EventsReturned(PollThread)
  \/ Acquire(PollThread) \/ Enter(PollThread) \/ Send(PollThread) \/ Recv(PollThread)
  \/ Finally(PollThread)
  \/ CallUser(UserThread) \/ Acquire(UserThread) \/ Step(UserThread)

CoordSpec == Init /\ [][CoordNext]_vars

\* ------------------------------------------------------------ the entities
\* The event-log sensor and the alarm panel entity listen to the coordinator. The
\* platforms construct them after the first refresh has succeeded; from then on each
\* runs its _handle_coordinator_update when the coordinator notifies its listeners.

\* const.py: SYSTEM_MAX_EVENT_LOG_SIZE.
SYSTEM_MAX_EVENT_LOG_SIZE == 150

\* InimEventLogSensor.__init__: the configured size, capped with the system maximum.
DisplaySize(configured) ==
  IF configured < SYSTEM_MAX_EVENT_LOG_SIZE THEN configured ELSE SYSTEM_MAX_EVENT_LOG_SIZE

event_log_display_size == DisplaySize(EventLogSize)

\* InimEventLogSensor._update_state_from_coordinator: new events are prepended in the
\* order the data lists them and the log is cut to the display size; without data or
\* without new events the log stays. An event is written as its index: the enrichment
\* turns each raw event into one log entry and keeps the order.
UpdateStateFromCoordinator(log, data) ==
  IF data = <<>> THEN log
  ELSE LET newly_fetched_raw_events == data[1].processed_events
           enriched_new_events_this_poll == newly_fetched_raw_events
           joined == enriched_new_events_this_poll \o log
       IN  IF newly_fetched_raw_events = <<>> THEN log
           ELSE SubSeq(joined, 1, IF Len(joined) < event_log_display_size
                                  THEN Len(joined) ELSE event_log_display_size)

\* The state the active scenario maps to: the first mapping that names it, in the
\* order disarm, home, away, night, vacation; an unmapped scenario counts as armed away
\* when a disarm scenario is known, and the default stays otherwise.
ScenarioState(current_active_scenario_idx, mappings) ==
  LET default == IF mappings.scenario_disarm # <<>> THEN "DISARMED" ELSE "UNKNOWN"
      idx == <<current_active_scenario_idx>>
  IN  IF idx = mappings.scenario_disarm THEN "DISARMED"
      ELSE IF idx = mappings.scenario_arm_home THEN "ARMED_HOME"
      ELSE IF idx = mappings.scenario_arm_away THEN "ARMED_AWAY"
      ELSE IF idx = mappings.scenario_arm_night THEN "ARMED_NIGHT"
      ELSE IF idx = mappings.scenario_arm_vacation THEN "ARMED_VACATION"
      ELSE IF /\ current_active_scenario_idx # -1
              /\ mappings.scenario_disarm # <<>>
              /\ idx # mappings.scenario_disarm
              /\ default = "DISARMED"
           THEN "ARMED_AWAY"
           ELSE default

\* The index of the active scenario in the coordinator's data, -1 when it has none.
ActiveScenarioIdx(data) ==
  IF data.active_scenario # <<>> THEN data.active_scenario[1].active_scenario_number ELSE -1

\* A variant that lets the scenario mappings decide before the triggered areas.
UpdateInternalState_ScenarioFirst(state, data, mappings) ==
  IF data = <<>> THEN state
  ELSE LET by_scenario == ScenarioState(ActiveScenarioIdx(data[1]), mappings)
           areas_status_data == data[1].areas_status
       IN  IF by_scenario \notin {"DISARMED", "UNKNOWN"} THEN by_scenario
           ELSE IF /\ areas_status_data # <<>>
                   /\ areas_status_data[1].triggered_areas # <<>>
                THEN "TRIGGERED"
                ELSE by_scenario

\* InimAlarmControlPanel._update_internal_state: without data the state stays; a
\* triggered area (any() of a non-empty list) gives TRIGGERED before the scenario is
\* looked at; otherwise the active scenario decides.
UpdateInternalState(state, data, mappings) ==
  IF data = <<>> THEN state
  ELSE LET areas_status_data == data[1].areas_status
           triggered == IF areas_status_data # <<>>
                        THEN areas_status_data[1].triggered_areas ELSE <<>>
       IN  IF /\ areas_status_data # <<>>
              /\ triggered # <<>>
              /\ \E k \in 1..Len(triggered) : triggered[k] # 0
           THEN "TRIGGERED"
           ELSE ScenarioState(ActiveScenarioIdx(data[1]), mappings)

\* The events the panel logs while the model runs, after the one at the first head.
MaxPolled == 3

PanelHeads == { 41574 + 9 * k : k \in 0..MaxPolled }

\* The indexes a walk-back of n fetches from the head returns, newest first.
WalkBack(head, n) == [i \in 1..n |-> head - 9 * (i - 1)]

\* What execute_get_compact_events can return to a poll whose cursor is last_known: no
\* head on a connection failure; otherwise the head and the events of a walk-back that
\* runs to the count (no cursor) or to the cursor, or ends earlier on a failed fetch.
EventResults(last_known) ==
  { [events |-> <<>>, latest_event_index_val |-> <<>>] } \cup
  UNION { { [events |-> WalkBack(y, n), latest_event_index_val |-> <<y>>] :
              n \in 0..(IF last_known = <<>> THEN EventLogSize
                        ELSE (y - last_known[1]) \div 9) } :
          y \in { h \in PanelHeads : last_known = <<>> \/ h >= last_known[1] } }

\* What get_live_status_snapshot can return to a poll that does not fail: each of the
\* areas' status and the active scenario None or decoded from the panel's reply.
LiveStatuses ==
  { [areas_status |-> areas, active_scenario |-> scenario] :
      areas \in {<<>>} \cup
                { GetAreasStatus([ok |-> TRUE,
                                  data |-> [k \in 1..16 |-> IF k = 11 THEN b ELSE 68]],
                                 DEFAULT_SYSTEM_MAX_AREAS) : b \in {0, 1, 5} },
      scenario \in {<<>>} \cup { <<[active_scenario_number |-> n]>> : n \in 0..2 } }

\* entry.options: the scenario each alarm state is mapped to, <<>> for "none".
NoMappings ==
  [scenario_disarm |-> <<>>, scenario_arm_home |-> <<>>, scenario_arm_away |-> <<>>,
   scenario_arm_night |-> <<>>, scenario_arm_vacation |-> <<>>]

ScenarioMappings ==
  { NoMappings,
    [NoMappings EXCEPT !.scenario_disarm = <<0>>],
    [NoMappings EXCEPT !.scenario_disarm = <<0>>, !.scenario_arm_home = <<1>>,
                       !.scenario_arm_away = <<2>>],
    [NoMappings EXCEPT !.scenario_arm_night = <<0>>, !.scenario_arm_vacation = <<1>>] }

\* The coordinator notifies its listeners: both entities run their handler on the data
\* the coordinator holds. No entity listens before the platforms are set up.
ListenersUpdated(data) ==
  IF scenario_mappings = <<>>
  THEN UNCHANGED <<event_log, current_ha_state_enum>>
  ELSE /\ event_log' = UpdateStateFromCoordinator(event_log, data)
       /\ current_ha_state_enum' =
            UpdateInternalState(current_ha_state_enum, data, scenario_mappings[1])

\* A refresh whose _async_update_data returns: the coordinator keeps the returned data
\* and notifies its listeners. The first refresh comes before the platforms are set up,
\* every later one after.
RefreshSucceeded ==
  /\ scenario_mappings # <<>> \/ coordinator_data = <<>>
  /\ \E status_data \in LiveStatuses, event_result \in EventResults(last_known_event_index_val) :
       LET cursor == CursorAfter(last_known_event_index_val, event_result)
           current_data == [areas_status |-> status_data.areas_status,
                            active_scenario |-> status_data.active_scenario,
                            processed_events |-> event_result.events,
                            latest_event_index_val |-> cursor]
       IN  /\ last_known_event_index_val' = cursor
           /\ coordinator_data' = <<current_data>>
           /\ ListenersUpdated(<<current_data>>)
  /\ update' = NoUpdate
  /\ UNCHANGED <<pin_hex, sock, is_connected, api_lock, pc, fr, wire, stream, skipped,
                 scenario_mappings>>

\* A refresh whose _async_update_data raises UpdateFailed: the coordinator keeps the
\* data it had, and notifies its listeners when the refresh before had succeeded.
RefreshFailed ==
  /\ update' = [NoUpdate EXCEPT !.failed = TRUE]
  /\ IF update.failed
     THEN UNCHANGED <<event_log, current_ha_state_enum>>
     ELSE ListenersUpdated(coordinator_data)
  /\ UNCHANGED <<pin_hex, sock, is_connected, api_lock, pc, fr, wire, stream, skipped,
                 last_known_event_index_val, coordinator_data, scenario_mappings>>

\* async_setup_entry of the two platforms, after a first refresh that succeeded: each
\* entity is constructed on the coordinator's data and runs its update once.
SetupEntry ==
  /\ scenario_mappings = <<>>
  /\ coordinator_data # <<>>
  /\ ~update.failed
  /\ \E options \in ScenarioMappings :
       /\ scenario_mappings' = <<options>>
       /\ event_log' = UpdateStateFromCoordinator(<<>>, coordinator_data)
       /\ current_ha_state_enum' = UpdateInternalState("DISARMED", coordinator_data, options)
  /\ UNCHANGED <<pin_hex, sock, is_connected, api_lock, pc, fr, wire, stream, skipped,
                 last_known_event_index_val, update, coordinator_data>>

EntityNext == RefreshSucceeded \/ RefreshFailed \/ SetupEntry

EntitySpec == Init /\ [][EntityNext]_vars

\* ------------------------------------------------------------ properties
\* The caller's operation is between its connect and its disconnect.
InSession(c) == pc[c] \in {"send", "recv", "finally"}

\* The operation's try body is over and its return value is determined.
Returning(c) == pc[c] \in {"finally", "exit"}

WireKeys == [i \in 1..Len(wire) |-> wire[i].key]

\* C1: under any interleaving of concurrent callers at most one public operation is
\* between its connect and its disconnect, and every command on the wire of the current
\* connection was written by that one operation, the holder of the lock.
C1_OneOperationOnTheWire ==
  /\ \A c, d \in Callers : (InSession(c) /\ InSession(d)) => c = d
  /\ \A i \in 1..Len(wire) : InSession(wire[i].by) /\ api_lock = wire[i].by

\* An operation is mid-exchange with two commands written while the other caller waits
\* for the lock.
C1_Witness ==
  \E c, d \in Callers :
    /\ c # d
    /\ pc[c] = "recv" /\ Len(wire) >= 2
    /\ pc[d] = "lock"

\* C2: whenever the engine lock is free the session is disconnected (sock is None and
\* _is_connected is false), and an operation that is about to return and release the
\* lock has already disconnected, on every path.
C2_DisconnectedWhenLockFree ==
  /\ api_lock = Free => (sock = NoSock /\ ~is_connected)
  /\ \A c \in Callers : pc[c] = "exit" => (sock = NoSock /\ ~is_connected /\ api_lock = c)

\* get_live_status_snapshot is about to return after an exception was raised inside it.
C2_Witness ==
  \E c \in Callers :
    /\ pc[c] = "exit" /\ fr[c].connected
    /\ fr[c].op.name = "live"
    /\ fr[c].errors = <<"Exception: IndexError">>

\* C3: a caller waiting for the lock stays waiting until it acquires it, it eventually
\* acquires it, and a held lock is eventually free again, under fair scheduling.
C3_LockEventuallyReleased ==
  /\ [][\A c \in Callers : pc[c] = "lock" => pc'[c] \in {"lock", "enter"}]_vars
  /\ \A c \in Callers : (pc[c] = "lock") ~> (api_lock = c)
  /\ (api_lock # Free) ~> (api_lock = Free)

\* A caller waits for the lock while the holder is on the early return of
\* execute_activate_scenario for an invalid scenario index.
C3_Witness ==
  \E c, d \in Callers :
    /\ c # d
    /\ pc[c] = "lock"
    /\ api_lock = d /\ pc[d] = "exit"
    /\ fr[d].op.name = "activate" /\ ~ValidScenario(fr[d].op.scen)

\* A reply whose data block is all zero and whose last byte is the block's checksum.
AllZeroBlock(b) ==
  /\ Len(b) >= 2
  /\ \A i \in 1..(Len(b) - 1) : b[i] = 0
  /\ b[Len(b)] = 0

CheckPermitted(f) == f.check_reply # <<>> /\ AllZeroBlock(f.check_reply[1])

\* C4: in execute_activate_scenario the activation command (header + PIN + scenario
\* byte) is on the wire only as the second command, after the permission check of the
\* same operation was answered by an all-zero block with a valid checksum; when the
\* check is answered otherwise, or fails, the operation returns False without writing it.
C4_ActivationOnlyAfterPermission ==
  /\ \A i \in 1..Len(wire) :
       wire[i].key = "ACTIVATE_SCENARIO_CMD_INFO" =>
         LET f == fr[wire[i].by]
         IN  /\ f.op.name = "activate"
             /\ CheckPermitted(f)
             /\ i = 2
             /\ wire[1].key = "CHECK_SCENARIO_ACTIVATION_ALLOWED_INFO"
             /\ wire[1].by = wire[i].by
             /\ wire[i].bytes = COMMAND_SPECS.ACTIVATE_SCENARIO_CMD_INFO.cmd_full
                                  \o pin_hex \o <<f.op.scen>>
  /\ \A c \in Callers :
       (fr[c].op.name = "activate" /\ Returning(c) /\ ~CheckPermitted(fr[c])) =>
         /\ fr[c].ret = <<FALSE>>
         /\ \A i \in 1..Len(wire) : wire[i].key # "ACTIVATE_SCENARIO_CMD_INFO"

\* The activation command has just been written, after a permitted check.
C4_Witness ==
  \E c \in Callers :
    /\ pc[c] = "recv"
    /\ fr[c].op.name = "activate" /\ fr[c].m = 2
    /\ Len(wire) = 2 /\ wire[2].key = "ACTIVATE_SCENARIO_CMD_INFO"

\* C5: execute_activate_scenario always returns a boolean, and returns True if and only
\* if the connection opened, the permission check reported allowed, and the reply to the
\* activation command is exactly one byte equal to the sum modulo 256 of the 7-byte
\* PIN + scenario payload.
C5_ActivateReturnsTrueIffAcknowledged ==
  \A c \in Callers :
    LET f == fr[c]
        payload == pin_hex \o <<f.op.scen>>
    IN  (f.op.name = "activate" /\ Returning(c)) =>
          /\ f.ret \in {<<TRUE>>, <<FALSE>>}
          /\ (f.ret = <<TRUE>>) <=>
               /\ f.connected
               /\ f.allowed = <<TRUE>>
               /\ Len(payload) = 7
               /\ f.ack = << <<SumRange(payload, 1, 7) % 256>> >>

\* Scenario 29 was activated and acknowledged: the operation returns True.
C5_Witness ==
  \E c \in Callers :
    /\ pc[c] = "finally"
    /\ fr[c].op.name = "activate" /\ fr[c].op.scen = 29
    /\ fr[c].ret = <<TRUE>>

\* C6: execute_arm_disarm_areas always returns a boolean, and returns True if and only if
\* the reply is exactly one byte equal to the sum modulo 256 of the 14-byte block
\* PIN (6 bytes) + area payload (8 bytes) that was sent after the command header.
C6_ArmReturnsTrueIffAcknowledged ==
  \A c \in Callers :
    LET f == fr[c]
        areas == ConstructAreaActionPayload(f.op.areas_to_arm, f.op.areas_to_disarm)
        block == pin_hex \o areas
    IN  (f.op.name = "arm" /\ Returning(c)) =>
          /\ f.ret \in {<<TRUE>>, <<FALSE>>}
          /\ Len(pin_hex) = 6 /\ Len(areas) = 8
          /\ (pc[c] = "finally" /\ f.connected) =>
               /\ Len(wire) = 1
               /\ wire[1].bytes = COMMAND_SPECS.ARM_DISARM_AREAS_CMD_INFO.cmd_full \o block
          /\ (f.ret = <<TRUE>>) <=>
               /\ f.connected
               /\ f.ack = << <<SumRange(block, 1, 14) % 256>> >>

\* Areas 1 and 3 armed, area 2 disarmed, acknowledged: the operation returns True.
C6_Witness ==
  \E c \in Callers :
    /\ pc[c] = "finally"
    /\ fr[c].op.name = "arm" /\ fr[c].op.areas_to_arm = {1, 3}
    /\ fr[c].ret = <<TRUE>>

\* The first command of each of the seven resources, in the order of the loop.
ResourceOrder == [m \in 1..Len(ConfigKeys) |-> ConfigCommands[m][1]]

\* The resources attempted on the current connection: their first commands, in the
\* order they were written.
ResourcesAttempted ==
  SelectSeq(WireKeys, LAMBDA k : \E m \in 1..Len(ResourceOrder) : ResourceOrder[m] = k)

\* C7: get_initial_panel_configuration, once connected, attempts the seven resources in
\* the fixed order whatever the outcome of earlier ones; in its result every resource is
\* either None or populated, and the errors list has, in that order, one entry for
\* exactly the resources that are None.
C7_AllSevenResourcesAttempted ==
  \A c \in Callers :
    LET f == fr[c]
    IN  (f.op.name = "config" /\ f.connected) =>
          /\ InSession(c) =>
               /\ Len(ResourcesAttempted) <= Len(ResourceOrder)
               /\ ResourcesAttempted = SubSeq(ResourceOrder, 1, Len(ResourcesAttempted))
          /\ pc[c] = "finally" => ResourcesAttempted = ResourceOrder
          /\ Returning(c) =>
               LET result == f.ret[1]
                   failed == SelectSeq(ConfigKeys, LAMBDA k : result.cfg[k] = IsNone)
               IN  /\ \A m \in 1..Len(ConfigKeys) :
                         result.cfg[ConfigKeys[m]].st \in {"None", "populated"}
                   /\ result.errors = [i \in 1..Len(failed) |-> FailedMessage(failed[i])]

\* zones and scenario_activations failed, the five other resources are populated.
C7_Witness ==
  \E c \in Callers :
    /\ pc[c] = "finally"
    /\ fr[c].op.name = "config"
    /\ fr[c].ret # <<>>
    /\ fr[c].ret[1].errors = <<"Failed zones.", "Failed scenario_activations.">>
    /\ fr[c].ret[1].cfg["keyboard_names"].st = "populated"

\* C8: in incremental mode, once the head is resolved and is not newer than the
\* last-known index, get_compact_events is over with zero events and the head, and no
\* per-event fetch command is on the wire.
C8_NoFetchWhenHeadNotNewer ==
  \A c \in Callers :
    LET f == fr[c]
    IN  (f.op.name = "events" /\ IncrementalMode(f.op)
           /\ f.y # <<>> /\ f.y[1] <= f.op.last[1]) =>
          /\ Returning(c)
          /\ f.ret = <<EventsResult(<<>>, f.y)>>
          /\ \A i \in 1..Len(wire) : wire[i].key # "GET_COMPACT_EVENT_CMD_INFO"

\* The head equals the last-known index and only the pointer command was written.
C8_Witness ==
  \E c \in Callers :
    /\ pc[c] = "finally"
    /\ fr[c].op.name = "events" /\ IncrementalMode(fr[c].op)
    /\ fr[c].y = fr[c].op.last
    /\ WireKeys = <<"GET_NEXT_EVENT_POINTER_CMD_INFO">>

\* C9: in incremental mode every event retrieved, and every per-event fetch written, has
\* a query index strictly greater than the last-known index.
C9_OnlyNewerEvents ==
  \A c \in Callers :
    LET f == fr[c]
    IN  (f.op.name = "events" /\ IncrementalMode(f.op)) =>
          /\ \A i \in 1..Len(f.events) : f.events[i] > f.op.last[1]
          /\ (f.m = 2 /\ ~f.fin) => f.idx > f.op.last[1]
          /\ (f.ret # <<>>) =>
               \A i \in 1..Len(f.ret[1].events) : f.ret[1].events[i] > f.op.last[1]

\* The walk-back returned two events and stopped at the cursor, which is not on the
\* 9-step grid of the head.
C9_Witness ==
  \E c \in Callers :
    /\ pc[c] = "finally"
    /\ fr[c].op.name = "events" /\ fr[c].op.last = <<41580>>
    /\ fr[c].ret # <<>>
    /\ fr[c].ret[1].events = <<41592, 41583>>

\* C10: whenever head resolution succeeded, the result of get_compact_events carries
\* latest_event_index_val equal to the resolved head, however the walk-back ended; the
\* head is the one resolved from the pointer that was read.
C10_ResultCarriesHead ==
  \A c \in Callers :
    LET f == fr[c]
    IN  (f.op.name = "events" /\ f.connected /\ f.ret # <<>>) =>
          IF f.ptr # <<>>
          THEN /\ f.y = <<ResolveHead(f.ptr)>>
               /\ f.ret[1].latest_event_index_val = f.y
          ELSE f.ret[1].latest_event_index_val = <<>>

\* The walk-back ended on a failed per-event fetch after one event, short of the count.
C10_Witness ==
  \E c \in Callers :
    /\ pc[c] = "finally"
    /\ fr[c].op.name = "events" /\ fr[c].op.count = <<MaxCount>> /\ fr[c].op.last = <<>>
    /\ fr[c].i = 1 /\ fr[c].n = MaxCount
    /\ fr[c].ret # <<>>
    /\ fr[c].ret[1].events = <<41592>>
    /\ fr[c].ret[1].latest_event_index_val = <<41592>>

\* The per-event fetch commands written on the current connection, in order.
FetchWrites == SelectSeq(wire, LAMBDA e : e.key = "GET_COMPACT_EVENT_CMD_INFO")

\* The requested count brought into 1..MAX_EVENTS_PER_FETCH.
ClampedCount(count) ==
  IF count < 1 THEN 1
  ELSE IF count > MAX_EVENTS_PER_FETCH THEN MAX_EVENTS_PER_FETCH ELSE count

\* C11: one get_compact_events call writes at most MAX_EVENTS_PER_FETCH per-event
\* fetches (with a count, at most the count clamped into 1..50); the k-th fetch asks for
\* the non-negative index head - 9 * (k - 1); every fetch but the last one written has
\* retrieved an event, and no fetch is written after one that failed.
C11_BoundedWalkStopsAtFailure ==
  \A c \in Callers :
    LET f == fr[c]
        nf == Len(FetchWrites)
    IN  (f.op.name = "events" /\ InSession(c)) =>
          /\ nf <= MAX_EVENTS_PER_FETCH
          /\ f.op.count # <<>> => nf <= ClampedCount(f.op.count[1])
          /\ \A k \in 1..nf :
               /\ f.y[1] - 9 * (k - 1) >= 0
               /\ FetchWrites[k].bytes = EventCommand(f.y[1] - 9 * (k - 1))
          /\ nf <= Len(f.events) + 1
          /\ (pc[c] = "send" /\ f.m = 2) => nf = Len(f.events)
          /\ (pc[c] = "recv" /\ f.m = 2) => nf = Len(f.events) + 1

\* The walk-back reached the limit: 50 events for a requested count of 51.
C11_Witness ==
  \E c \in Callers :
    /\ pc[c] = "finally"
    /\ fr[c].op.name = "events" /\ fr[c].op.count = <<51>>
    /\ Len(fr[c].events) = MAX_EVENTS_PER_FETCH
    /\ Len(FetchWrites) = MAX_EVENTS_PER_FETCH

\* The head formula over every 16-bit next-event pointer.
HeadFormulaHolds ==
  \A x \in 0..65535 :
    LET y == ResolveHead(<<x \div 256, x % 256>>)
    IN  y = ((x - 1) * 9 + 37380) % 65536 /\ y \in 0..65535

\* C12: for every 16-bit next-event pointer X_next, 0 included, the resolved head is
\* ((X_next - 1) * 9 + 0x9204) mod 0x10000, within 0..0xFFFF; X_next = 0x01D5 gives
\* 0xA278; and the head an operation resolves is that of the little-endian value of the
\* first two data bytes of the pointer reply.
C12_HeadFromPointer ==
  /\ HeadFormulaHolds
  /\ ResolveHead(<<1, 213>>) = 41592
  /\ \A c \in Callers :
       LET f == fr[c]
       IN  (f.op.name = "events" /\ f.y # <<>>) =>
             LET b == f.ptr_reply[1]
                 x_next == b[1] + 256 * b[2]
             IN  /\ f.y[1] = ((x_next - 1) * 9 + 37380) % 65536
                 /\ f.y[1] \in 0..65535

\* The pointer reply carried X_next = 0x01D5 and the head was resolved to 0xA278.
C12_Witness ==
  \E c \in Callers :
    /\ fr[c].op.name = "events"
    /\ fr[c].y = <<41592>>
    /\ SubSeq(fr[c].ptr_reply[1], 1, 2) = <<213, 1>>

\* C13: for every response to the permission check, one-byte responses included, the
\* exchange returns the data block if and only if the response's last byte equals the
\* sum modulo 256 of the bytes before it, and the block returned is those bytes.
C13_PayloadIffChecksumValid ==
  \A c \in Callers :
    LET f == fr[c]
    IN  (f.op.name \in {"check", "activate"} /\ f.check_reply # <<>>) =>
          LET b == f.check_reply[1]
              before == SubSeq(b, 1, Len(b) - 1)
              valid == b[Len(b)] = SumRange(before, 1, Len(before)) % 256
          IN  /\ (f.check_data # <<>>) <=> valid
              /\ valid => f.check_data = <<before>>

\* C14: an exchange yields a data payload only from a response of exactly resp_len
\* bytes of the issued command: the permission check only from 14 bytes, the pointer
\* read only from 6 bytes; a reply delivered in fewer bytes yields no payload.
C14_PayloadOnlyFromFullLengthResponse ==
  \A c \in Callers :
    LET f == fr[c]
    IN  /\ (f.op.name \in {"check", "activate"} /\ f.check_data # <<>>) =>
             Len(f.check_reply[1]) = COMMAND_SPECS.CHECK_SCENARIO_ACTIVATION_ALLOWED_INFO.resp_len
        /\ (f.op.name = "events" /\ f.ptr # <<>>) =>
             Len(f.ptr_reply[1]) = COMMAND_SPECS.GET_NEXT_EVENT_POINTER_CMD_INFO.resp_len

\* The caller is past the start of its operation: connect was attempted, or the
\* operation returned before it.
PastConnect(c) == pc[c] \in {"send", "recv", "finally", "exit"}

\* No command is on the wire of the current connection twice.
NoCommandResent ==
  \A i, j \in 1..Len(wire) : i # j => wire[i].bytes # wire[j].bytes

\* C15 as stated: within one public operation connect is attempted exactly once, and
\* each command of the operation is written at most once.
C15_ConnectExactlyOnce ==
  /\ \A c \in Callers : PastConnect(c) => fr[c].connects = 1
  /\ NoCommandResent

\* C15, amended: within one public operation connect is attempted at most once, exactly
\* once unless execute_activate_scenario returns on an invalid scenario index before
\* connecting, and each command of the operation is written at most once: a failed
\* exchange is not re-sent and the connection is not re-opened.
C15_NoRetryNoReconnect ==
  /\ \A c \in Callers :
       LET f == fr[c]
       IN  /\ f.connects <= 1
           /\ f.opened = f.connects
           /\ PastConnect(c) =>
                (f.connects = 0 <=> (f.op.name = "activate" /\ ~ValidScenario(f.op.scen)))
           /\ f.connected => f.connects = 1
  /\ NoCommandResent

\* get_initial_panel_configuration went on after the failed first exchange and finished
\* with one connect and that one failure.
C15_Witness ==
  \E c \in Callers :
    /\ pc[c] = "finally"
    /\ fr[c].op.name = "config"
    /\ fr[c].errors = <<"Failed system_info.">>
    /\ fr[c].connects = 1
    /\ Len(wire) = 20

\* The outcomes a socket could give to one exchange, had it been used.
Exchanges ==
  { [send |-> snd, recv |-> rcv, bytes |-> b] :
      snd \in SendOutcomes, rcv \in {"data", "closed", "timeout", "error"},
      b \in {<<>>, <<0>>, Rep(14, 0)} }

\* While not connected, _send_raw_command and _read_raw_response raise ConnectionError
\* whatever the socket would have done, and _send_command_core returns None.
NotConnectedFails ==
  \A x \in Exchanges :
    /\ SendRawCommand(FALSE, x) = "ConnectionError"
    /\ ReadRawResponse(FALSE, x) = [exc |-> "ConnectionError", hex |-> <<>>]
    /\ SendCommandCore(FALSE, x) = None

\* C16: no byte is written or read unless connect succeeded in the current operation;
\* when connect fails the operation returns its failure value without any exchange; a
\* send or read while not connected fails with a connection error.
C16_NoExchangeWithoutConnect ==
  /\ wire # <<>> =>
       \E c \in Callers :
         /\ InSession(c) /\ fr[c].connected /\ fr[c].connects = 1
         /\ \A i \in 1..Len(wire) : wire[i].by = c
  /\ \A c \in Callers :
       /\ pc[c] \in {"send", "recv"} => (Connected /\ fr[c].connected)
       /\ (PastConnect(c) /\ fr[c].connects = 1 /\ ~fr[c].connected) =>
            /\ pc[c] = "exit"
            /\ fr[c].ret = <<ConnectFailureValue(fr[c].op)>>
            /\ wire = <<>>
            /\ ~Connected
  /\ NotConnectedFails

\* get_live_status_snapshot returned its connection-failure result after a failed
\* connect, nothing having been written.
C16_Witness ==
  \E c \in Callers :
    /\ pc[c] = "exit"
    /\ fr[c].op.name = "live"
    /\ fr[c].connects = 1
    /\ ~fr[c].connected
    /\ fr[c].ret = <<[error |-> "Connection failure", cfg |-> LiveInitial, errors |-> <<>>]>>
    /\ wire = <<>>

\* C17: connect is idempotent: called while connected it creates no socket, leaves the
\* socket and the connected flag unchanged and returns success; a call that fails on a
\* socket error leaves the engine not connected with sock None.
C17_ConnectIdempotent ==
  [][\A c \in Callers :
       (fr'[c] # fr[c] /\ fr'[c].op.name = "connect") =>
         /\ is_connected =>
              /\ sock' = sock
              /\ is_connected'
              /\ fr'[c].opened = fr[c].opened
              /\ fr'[c].ret = <<TRUE>>
         /\ fr'[c].ret = <<FALSE>> => (sock' = NoSock /\ ~is_connected')
         /\ fr'[c].ret = <<TRUE>> => (sock' # NoSock /\ is_connected')]_vars

\* A thread's second connect() found the engine connected: it returned True and only
\* one socket was created by its two calls.
C17_Witness ==
  \E c \in Callers :
    /\ fr[c].op.name = "connect"
    /\ fr[c].connects = 2
    /\ fr[c].opened = 1
    /\ fr[c].ret = <<TRUE>>
    /\ Connected

\* C18: disconnect always ends not connected (sock None, flag false), also when close()
\* reports an error; called while not connected it changes nothing; a second disconnect
\* after a disconnect changes nothing.
C18_DisconnectEndsNotConnected ==
  [][(\E c \in Callers : DirectDisconnect(c)) =>
       /\ sock' = NoSock /\ ~is_connected'
       /\ ~is_connected => (sock' = sock /\ is_connected' = is_connected)
       /\ \A close \in {"ok", "error"} :
            /\ Disconnect(Session, close) = [sock |-> sock', is_connected |-> is_connected']
            /\ Disconnect(Disconnect(Session, close), close) = Disconnect(Session, close)]_vars

\* One thread's only connect() succeeded, and the other thread, which never connected,
\* has disconnected since: the engine is not connected.
C18_Witness ==
  \E c, d \in Callers :
    /\ fr[d].op.name = "connect" /\ fr[d].connects = 1 /\ fr[d].ret = <<TRUE>>
    /\ fr[c].op.name = "disconnect" /\ fr[c].connects = 0
    /\ sock = NoSock
    /\ ~is_connected

\* C19: execute_check_scenario_activation_allowed returns False only when the panel
\* answered the check with a valid block that is not all zero, and returns the distinct
\* null result (None) when the connection or the exchange failed.
C19_FalseOnlyOnPanelRefusal ==
  \A c \in Callers :
    LET f == fr[c]
    IN  (f.op.name = "check" /\ Returning(c) /\ f.ret # <<>>) =>
          /\ f.ret[1] = <<FALSE>> =>
               (f.check_data # <<>> /\ f.check_data[1] # Rep(13, 0))
          /\ (~f.connected \/ (ValidScenario(f.op.scen) /\ f.check_data = <<>>)) =>
               f.ret[1] = <<>>

\* C20: with an explicit count, get_compact_events fetches the most recent events from
\* the head downwards up to the clamped count, whatever last-known index is supplied in
\* the same call: neither the head-not-newer return nor the cursor stop applies, and the
\* walk ends short of the count only on a failed fetch or a negative index.
C20_CountTakesPrecedence ==
  \A c \in Callers :
    LET f == fr[c]
    IN  (f.op.name = "events" /\ f.op.count # <<>> /\ f.y # <<>>) =>
          /\ f.n = ClampedCount(f.op.count[1])
          /\ \A k \in 1..Len(f.events) : f.events[k] = f.y[1] - 9 * (k - 1)
          /\ pc[c] = "finally" =>
               \/ Len(f.events) = f.n
               \/ f.y[1] - 9 * Len(f.events) < 0
               \/ Len(FetchWrites) = Len(f.events) + 1
          /\ (pc[c] = "finally" /\ f.ret # <<>>) => f.ret[1].events = f.events

\* A call with a count and a last-known index equal to the head fetched the two most
\* recent events.
C20_Witness ==
  \E c \in Callers :
    /\ pc[c] = "finally"
    /\ fr[c].op.name = "events"
    /\ fr[c].op.count = <<MaxCount>> /\ fr[c].op.last = <<41592>>
    /\ fr[c].y = <<41592>>
    /\ Len(fr[c].events) = MaxCount
    /\ fr[c].events[1] = 41592

\* The value that two hexadecimal digits spell.
HexValue(d) == d[1] * 16 + d[2]

\* C21: for every byte sequence calculate_checksum returns exactly two hex digits that
\* spell the sum of all bytes modulo 256: 00 for the empty sequence, and for a sequence
\* s followed by a byte b the checksum of s plus b, modulo 256.
C21_ChecksumIsSumMod256 ==
  \A c \in Callers :
    LET f == fr[c]
    IN  f.op.name = "calculate_checksum" =>
          LET s == f.arg[1]
              r == f.ret[1]
          IN  /\ Len(r) = 2
              /\ \A k \in 1..2 : r[k] \in 0..15
              /\ s = <<>> => r = <<0, 0>>
              /\ s # <<>> =>
                   LET front == SubSeq(s, 1, Len(s) - 1)
                   IN  HexValue(r) = (calculate_checksum(front) + s[Len(s)]) % 256

\* The checksum of ff ff 02, whose sum 0x200 exceeds one byte, was computed: 00.
C21_Witness ==
  \E c \in Callers :
    /\ fr[c].op.name = "calculate_checksum"
    /\ fr[c].arg = <<<<255, 255, 2>>>>
    /\ fr[c].ret = <<<<0, 0>>>>

\* The frame holds a call of format_pin_code with a PIN of at most 6 digits.
FormattedPin(f) == f.op.name = "format_pin_code" /\ Len(f.arg[1]) <= PIN_LENGTH_BYTES

\* C22: for a PIN of n <= 6 decimal digits format_pin_code returns exactly 6 bytes, the
\* byte 0x0d for each digit d in order, then 6 - n filler bytes 0xFF; two such PINs with
\* the same encoding are the same PIN.
C22_PinEncoding ==
  /\ \A c \in Callers :
       LET f == fr[c]
       IN  FormattedPin(f) =>
             LET pin == f.arg[1]
                 r == f.ret[1]
             IN  /\ Len(r) = PIN_LENGTH_BYTES
                 /\ \A k \in 1..PIN_LENGTH_BYTES :
                      r[k] = IF k <= Len(pin) THEN pin[k] ELSE 255
  /\ \A c \in Callers : \A q \in PinStrings :
       (FormattedPin(fr[c]) /\ Len(q) <= PIN_LENGTH_BYTES
          /\ fr[c].ret = <<format_pin_code(q)>>) => fr[c].arg = <<q>>

\* "1234" was encoded as 01 02 03 04 ff ff.
C22_Witness ==
  \E c \in Callers :
    /\ fr[c].op.name = "format_pin_code"
    /\ fr[c].arg = <<<<1, 2, 3, 4>>>>
    /\ fr[c].ret = <<<<1, 2, 3, 4, 255, 255>>>>

\* C23: a PIN longer than 6 digits is rejected: format_pin_code returns no PIN block for
\* it, in particular not the block of its first 6 digits, so that no command can carry
\* the truncated PIN.
C23_OversizedPinRejected ==
  \A c \in Callers :
    LET f == fr[c]
    IN  (f.op.name = "format_pin_code" /\ Len(f.arg[1]) > PIN_LENGTH_BYTES) =>
          /\ f.ret = <<>>
          /\ f.ret # <<format_pin_code(SubSeq(f.arg[1], 1, PIN_LENGTH_BYTES))>>

\* The action requested for area a by the sets of areas to arm and to disarm.
RequestedAction(a, areas_to_arm, areas_to_disarm) ==
  IF a \in areas_to_arm THEN "arm"
  ELSE IF a \in areas_to_disarm THEN "disarm"
  ELSE "keep"

\* Packing then unpacking recovers the requested action of every area 1..10.
RoundTrip(areas_to_arm, areas_to_disarm) ==
  LET payload == ConstructAreaActionPayload(areas_to_arm, areas_to_disarm)
      parsed == ParseAreaActions(SubSeq(payload, 1, 5), DEFAULT_SYSTEM_MAX_AREAS)
  IN  parsed = [a \in 1..10 |-> RequestedAction(a, areas_to_arm, areas_to_disarm)]

\* The round trip over every assignment of arm, disarm or keep to the areas 1..10.
RoundTripHolds ==
  \A want \in [1..10 -> {"arm", "disarm", "keep"}] :
    RoundTrip({a \in 1..10 : want[a] = "arm"}, {a \in 1..10 : want[a] = "disarm"})

\* C24: for disjoint sets of areas to arm and to disarm within 1..10, unpacking the first
\* 5 bytes of the payload built by _construct_area_action_payload with the decoding of
\* get_scenario_activations gives arm for the armed areas, disarm for the disarmed ones
\* and keep for all others.
C24_NibblePackingRoundTrip ==
  /\ \A c \in Callers :
       LET f == fr[c]
       IN  f.op.name = "_construct_area_action_payload" =>
             /\ RoundTrip(f.arg[1][1], f.arg[1][2])
             /\ Len(f.ret[1]) = MAX_AREAS_PAYLOAD \div 2
             /\ ParseAreaActions(SubSeq(f.ret[1], 1, 5), DEFAULT_SYSTEM_MAX_AREAS)
                  = [a \in 1..10 |-> RequestedAction(a, f.arg[1][1], f.arg[1][2])]
  /\ RoundTripHolds

\* The payload for arming areas 1 and 10 and disarming area 2 was built: 41 in the first
\* byte, 10 in the fifth.
C24_Witness ==
  \E c \in Callers :
    /\ fr[c].op.name = "_construct_area_action_payload"
    /\ fr[c].arg = <<<<{1, 10}, {2}>>>>
    /\ fr[c].ret = <<<<65, 0, 0, 0, 16, 0, 0, 0>>>>

\* The smaller of two numbers.
Min(a, b) == IF a < b THEN a ELSE b

\* C25: in the result of get_zones_status, status digit i (0..49, m = i div 2) describes
\* zones (4m+3, 4m+4) when i is even and (4m+1, 4m+2) when i is odd; 5 = both clear,
\* 6 = first alarmed, 9 = second alarmed, a = both alarmed, any other digit = both
\* unknown; the result holds one status for each zone 1..min(system_max_zones, 100) in
\* ascending zone order.
C25_ZoneStatusDecoding ==
  \A c \in Callers :
    LET f == fr[c]
    IN  (f.op.name = "get_zones_status" /\ f.ret[1] # <<>> /\ f.ret[1][1].error = "") =>
          LET data == f.arg[1].data[1]
              zs == f.ret[1][1].zone_statuses
              digit(i) == IF i % 2 = 0 THEN data[i \div 2 + 1] \div 16
                          ELSE data[i \div 2 + 1] % 16
              first(i) == IF i % 2 = 0 THEN 4 * (i \div 2) + 3 ELSE 4 * (i \div 2) + 1
              status1(d) == IF d \in {5, 9} THEN "clear"
                            ELSE IF d \in {6, 10} THEN "alarmed" ELSE "unknown"
              status2(d) == IF d \in {5, 6} THEN "clear"
                            ELSE IF d \in {9, 10} THEN "alarmed" ELSE "unknown"
          IN  /\ Len(zs) = Min(f.arg[1].limit, 100)
              /\ \A k \in 1..Len(zs) : zs[k].zone = k
              /\ \A i \in 0..49 :
                   /\ first(i) <= Len(zs) => zs[first(i)].status = status1(digit(i))
                   /\ first(i) + 1 <= Len(zs) => zs[first(i) + 1].status = status2(digit(i))

\* With a limit of 4 zones and the block 56 9a ...: digit 0 (5) gives zones 3 and 4
\* clear, digit 1 (6) gives zone 1 alarmed and zone 2 clear.
C25_Witness ==
  \E c \in Callers :
    /\ fr[c].op.name = "get_zones_status"
    /\ fr[c].arg[1].limit = 4
    /\ fr[c].ret[1] # <<>>
    /\ fr[c].ret[1][1].zone_statuses =
         << [zone |-> 1, status |-> "alarmed"], [zone |-> 2, status |-> "clear"],
            [zone |-> 3, status |-> "clear"], [zone |-> 4, status |-> "clear"] >>

\* C26: byte 8 of a zone's configuration is decoded as a dual-unit time: a value v in
\* 0..59 as v seconds, and a value v >= 0x80 as v - 0x80 minutes (0x80 as 0 minutes,
\* 0x81 as 1 minute).
C26_DualUnitTime ==
  \A c \in Callers :
    LET f == fr[c]
    IN  (f.op.name = "get_zones_config" /\ f.ret[1] # <<>>) =>
          LET zones == f.ret[1][1].zones_config_detailed
          IN  \A k \in 1..Len(zones) :
                zones[k].p1 # <<>> =>
                  LET v == zones[k].p1[1].raw_time
                      time == zones[k].p1[1].time
                  IN  /\ (0 <= v /\ v <= 59) => time = [value |-> v, unit |-> "seconds"]
                      /\ v >= 128 => time = [value |-> v - 128, unit |-> "minutes"]

\* The elements of a sequence.
Range(seq) == { seq[k] : k \in 1..Len(seq) }

\* C27: in the result of get_areas_status, for byte k (1..5) of the data the low nibble
\* gives the status of area 2k-1 and the high nibble that of area 2k (1 = armed,
\* 4 = disarmed, anything else = unknown); only the areas up to system_max_areas are
\* reported; an area is listed as triggered iff bit a-1 of the 11th data byte is set.
C27_AreaStatusDecoding ==
  \A c \in Callers :
    LET f == fr[c]
    IN  (f.op.name = "get_areas_status" /\ f.ret[1] # <<>>
           /\ f.ret[1][1].exc = NoException) =>
          LET data == f.arg[1].data[1]
              limit == f.arg[1].limit
              res == f.ret[1][1]
              status(n) == CASE n = 1 -> "armed" [] n = 4 -> "disarmed" [] OTHER -> "unknown"
          IN  /\ DOMAIN res.area_statuses = { a \in 1..10 : a <= limit }
              /\ \A k \in 1..5 :
                   /\ 2 * k - 1 <= limit =>
                        res.area_statuses[2 * k - 1] = status(data[k] % 16)
                   /\ 2 * k <= limit =>
                        res.area_statuses[2 * k] = status(data[k] \div 16)
              /\ Len(data) >= 11 =>
                   /\ \A a \in 1..limit :
                        a \in Range(res.triggered_areas) <=> (data[11] \div (2 ^ (a - 1))) % 2 = 1
                   /\ Range(res.triggered_areas) \subseteq 1..limit
                   /\ \A i, j \in 1..Len(res.triggered_areas) :
                        i < j => res.triggered_areas[i] < res.triggered_areas[j]

\* With 10 areas and the block 41 14 11 44 0f ... 05: area 1 armed, area 2 disarmed,
\* area 9 unknown, and areas 1 and 3 triggered.
C27_Witness ==
  \E c \in Callers :
    /\ fr[c].op.name = "get_areas_status"
    /\ fr[c].arg[1].limit = 10
    /\ fr[c].ret[1] # <<>>
    /\ fr[c].ret[1][1].exc = NoException
    /\ fr[c].ret[1][1].area_statuses[1] = "armed"
    /\ fr[c].ret[1][1].area_statuses[2] = "disarmed"
    /\ fr[c].ret[1][1].area_statuses[9] = "unknown"
    /\ fr[c].ret[1][1].triggered_areas = <<1, 3>>

\* The first 8 bytes of a command are a header: the 8th is the sum of the 7 before it,
\* modulo 256.
HeaderValid(bytes) ==
  /\ Len(bytes) >= 8
  /\ bytes[8] = (bytes[1] + bytes[2] + bytes[3] + bytes[4] + bytes[5] + bytes[6] + bytes[7]) % 256

\* Every fixed command of the catalog, the permission check of every scenario 0..29 and
\* the compact-event fetch of every index 0..0xFFFF have a valid header, with the
\* variable bytes in place.
AllHeadersValid ==
  /\ \A key \in DOMAIN COMMAND_SPECS :
       "cmd_full" \in DOMAIN COMMAND_SPECS[key] =>
         (Len(COMMAND_SPECS[key].cmd_full) = 8 /\ HeaderValid(COMMAND_SPECS[key].cmd_full))
  /\ \A scen \in 0..(DEFAULT_SYSTEM_MAX_SCENARIOS - 1) :
       /\ Len(CheckCommand(scen)) = 8
       /\ HeaderValid(CheckCommand(scen))
       /\ CheckCommand(scen)[6] = 128 + scen
  /\ \A index_val \in 0..65535 :
       /\ Len(EventCommand(index_val)) = 8
       /\ HeaderValid(EventCommand(index_val))
       /\ EventCommand(index_val)[4] * 256 + EventCommand(index_val)[5] = index_val

\* C28: every command the engine writes starts with an 8-byte header whose 8th byte is
\* the mod-256 sum of its first 7 bytes: every command on the wire, every fixed command
\* of COMMAND_SPECS, and both dynamically built commands for every scenario index 0..29
\* and every event index 0..0xFFFF.
C28_HeaderChecksum ==
  /\ \A i \in 1..Len(wire) : HeaderValid(wire[i].bytes)
  /\ AllHeadersValid

\* The fetch of the event at index 0xA278 is on the wire: 00 01 01 a2 78 00 09 25.
C28_Witness ==
  \E i \in 1..Len(wire) :
    /\ wire[i].key = "GET_COMPACT_EVENT_CMD_INFO"
    /\ wire[i].bytes = <<0, 1, 1, 162, 120, 0, 9, 37>>

\* The number of events logged since the last-known index when the head is y: the
\* distance from last to y modulo 0x10000, in 9-byte steps (0 when it is no whole number
\* of steps).
NewEvents(y, last) ==
  LET d == (y - last) % 65536
  IN  IF d % 9 = 0 THEN d \div 9 ELSE 0

\* C29: in incremental mode, when the panel has logged k new events (1 <= k <= 50) since
\* the index the caller supplies and every per-event fetch succeeded, exactly those k
\* events are returned, newest first, also when the head has wrapped modulo 0x10000.
C29_IncrementalReturnsNewEvents ==
  \A c \in Callers :
    LET f == fr[c]
    IN  (f.op.name = "events" /\ IncrementalMode(f.op) /\ f.y # <<>> /\ pc[c] = "finally"
           /\ Len(FetchWrites) = Len(f.events)) =>
          LET k == NewEvents(f.y[1], f.op.last[1])
          IN  (1 <= k /\ k <= MAX_EVENTS_PER_FETCH) =>
                /\ f.ret # <<>>
                /\ f.ret[1].events = [j \in 1..k |-> (f.y[1] - 9 * (j - 1)) % 65536]

\* The index a per-event fetch command on the wire asks for (its bytes 4 and 5).
FetchIndex(e) == e.bytes[4] * 256 + e.bytes[5]

\* C30: the per-event fetches of one walk-back ask for the head Y first and then for
\* the index exactly 9 below the previous one, never for an index below 0 (the walk
\* does not wrap below zero); the events are collected, and returned, in the order
\* fetched, newest first, each tagged with the index it was fetched at.
C30_WalkBackOrder ==
  \A c \in Callers :
    LET f == fr[c]
        nf == Len(FetchWrites)
        ne == Len(f.events)
    IN  (f.op.name = "events" /\ InSession(c)) =>
          /\ nf >= 1 => FetchIndex(FetchWrites[1]) = f.y[1]
          /\ \A k \in 2..nf :
               /\ FetchIndex(FetchWrites[k]) = FetchIndex(FetchWrites[k - 1]) - 9
               /\ FetchIndex(FetchWrites[k - 1]) - 9 >= 0
          /\ ne <= nf
          /\ \A k \in 1..ne : f.events[k] = FetchIndex(FetchWrites[k])
          /\ \A k \in 2..ne : f.events[k] < f.events[k - 1]
          /\ (pc[c] = "finally" /\ f.ptr # <<>> /\ f.ret # <<>>) =>
               f.ret[1].events = f.events

\* A walk-back from head 14 fetched 14 and 5 and stopped before index -4, with the
\* count not yet reached.
C30_Witness ==
  \E c \in Callers :
    /\ pc[c] = "finally"
    /\ fr[c].op.name = "events" /\ fr[c].y = <<14>>
    /\ fr[c].i = 2 /\ fr[c].i < fr[c].n /\ fr[c].idx = -4
    /\ Len(FetchWrites) = 2
    /\ FetchIndex(FetchWrites[1]) = 14 /\ FetchIndex(FetchWrites[2]) = 5
    /\ fr[c].ret # <<>>
    /\ fr[c].ret[1].events = <<14, 5>>

\* C31: within one connection the bytes an exchange consumes were all sent by the panel
\* in reply to that exchange's own command: no byte of an earlier exchange's reply is
\* read as the response of a later exchange.
C31_ExchangeReadsOwnReply ==
  \A i \in 1..Len(reads) : reads[i].of \subseteq {reads[i].cmd}

\* The commands of resource m written on the current connection, in order.
ResourceWrites(m) ==
  LET written == SelectSeq(wire, LAMBDA e :
                             \E j \in 1..Len(ConfigCommands[m]) : e.key = ConfigCommands[m][j])
  IN  [k \in 1..Len(written) |-> written[k].key]

IsPrefix(s, t) == Len(s) <= Len(t) /\ s = SubSeq(t, 1, Len(s))

\* The number of data bytes of the complete replies to the commands of resource m.
FullPayload(m) ==
  SumRange([j \in 1..Len(ConfigCommands[m]) |-> COMMAND_SPECS[ConfigCommands[m][j]].resp_len - 1],
           1, Len(ConfigCommands[m]))

\* C32: the commands of a resource that spans several commands (zone names 7, zone
\* configuration 4 + 3, scenario names 2) are written in catalog order, and the payloads
\* are concatenated in that order; after the first failed fragment no later fragment of
\* the resource is written and the resource is None; a resource that is returned is the
\* concatenation of all its fragments, never of a part of them.
C32_FragmentsInOrderAllOrNothing ==
  \A c \in Callers :
    LET f == fr[c]
    IN  (f.op.name = "config" /\ InSession(c)) =>
          \A m \in 1..Len(ConfigKeys) :
            LET key == ConfigKeys[m]
                cmds == ConfigCommands[m]
                got == f.parts[key]
                asked == ResourceWrites(m)
            IN  /\ IsPrefix(asked, cmds)
                /\ IsPrefix(got, asked)
                /\ Len(asked) <= Len(got) + 1
                /\ f.cfg[key].st = "populated" =>
                     /\ got = cmds
                     /\ f.cfg[key].raw = FullPayload(m)
                /\ (f.cfg[key] = IsNone /\ Len(cmds) > 1) => Len(got) < Len(cmds)
                /\ (f.m > m \/ f.fin) => f.cfg[key] # Unset

\* The third fragment of the zone names failed: the first two payloads had been
\* concatenated, fragments 4 to 7 were never written, the resource is None, and the
\* operation went on to the zone configuration.
C32_Witness ==
  \E c \in Callers :
    LET f == fr[c]
    IN  /\ f.op.name = "config" /\ InSession(c)
        /\ f.cfg.zones = IsNone
        /\ f.parts.zones = <<"GET_ZONE_NAMES_1", "GET_ZONE_NAMES_2">>
        /\ ResourceWrites(3) = <<"GET_ZONE_NAMES_1", "GET_ZONE_NAMES_2", "GET_ZONE_NAMES_3">>
        /\ ResourceWrites(4) # <<>>
        /\ f.cfg.zones_config.st = "populated"
        /\ f.parts.zones_config = ConfigCommands[4]

\* The poll's event fetch returns to the coordinator in this step.
EventsReturn == update.at = "events" /\ update'.at = "idle"

\* The indexes of the per-event fetches the poll has written on the current connection.
PollFetches ==
  LET w == SelectSeq(FetchWrites, LAMBDA e : e.by = PollThread)
  IN  {FetchIndex(w[k]) : k \in 1..Len(w)}

\* C33: when an incremental walk-back ends early (a fetch failed, or the limit of 50 was
\* reached with newer events left), the result still carries the resolved head and the
\* coordinator moves its cursor to it, past the events left behind; and, for as long as
\* the head has not fallen back below them, no later incremental poll fetches an index
\* among the events left behind.
C33_EarlyEndedWalkLosesEvents ==
  /\ [][ (EventsReturn /\ LeftBehind(fr[PollThread]) # <<>>) =>
           /\ fr[PollThread].ret[1].latest_event_index_val = fr[PollThread].y
           /\ last_known_event_index_val' = fr[PollThread].y
           /\ LeftBehind(fr[PollThread])[1].upto <= last_known_event_index_val'[1]
           /\ skipped' = LeftBehind(fr[PollThread]) ]_vars
  /\ [](skipped # <<>> =>
          /\ last_known_event_index_val # <<>>
          /\ skipped[1].upto <= last_known_event_index_val[1]
          /\ \A i \in PollFetches : ~(skipped[1].after < i /\ i <= skipped[1].upto))

\* A poll from cursor 14 with head 0x91FB returned 50 events and left the older ones
\* behind; a later incremental poll, from cursor 0x91FB, fetches the new head 0xA278.
C33_Witness ==
  /\ skipped = <<[after |-> 14, upto |-> 37371 - 9 * MAX_EVENTS_PER_FETCH]>>
  /\ last_known_event_index_val = <<37371>>
  /\ update.at = "events"
  /\ IncrementalMode(fr[PollThread].op)
  /\ 41592 \in PollFetches

\* C34: the cursor selects the mode and only moves to a resolved head. The event fetch
\* of a poll is called with the configured count and no last index exactly when the
\* cursor is unset, and with the cursor as last index and no count otherwise; when the
\* fetch returns a result with a head the cursor becomes that head, when it returns one
\* without a head (head resolution or connection failed) the cursor stays; no other
\* step changes the cursor, and a cursor that is set is never unset.
C34_CursorSelectsModeAndFollowsHead ==
  /\ [](update.at = "events" =>
          LET op == fr[PollThread].op
          IN  /\ op.name = "events"
              /\ (last_known_event_index_val = <<>>) <=> (op.count # <<>> /\ op.last = <<>>)
              /\ last_known_event_index_val = <<>> => op.count = <<EventLogSize>>
              /\ last_known_event_index_val # <<>> =>
                   (op.count = <<>> /\ op.last = last_known_event_index_val))
  /\ [][ /\ EventsReturn =>
              LET head == fr[PollThread].ret[1].latest_event_index_val
              IN  /\ head # <<>> => last_known_event_index_val' = head
                  /\ head = <<>> => last_known_event_index_val' = last_known_event_index_val
         /\ ~EventsReturn => last_known_event_index_val' = last_known_event_index_val
         /\ last_known_event_index_val # <<>> => last_known_event_index_val' # <<>> ]_vars

\* An incremental poll whose head resolution failed has returned: the cursor is still
\* the head of an earlier poll.
C34_Witness ==
  /\ update.at = "idle"
  /\ update.event_result = <<EventsResult(<<>>, <<>>)>>
  /\ last_known_event_index_val = <<14>>
  /\ update.ret # <<>>
  /\ update.ret[1].latest_event_index_val = <<14>>

\* The poll's live snapshot returns to the coordinator in this step.
StatusReturn == update.at = "status" /\ update'.at # "status"

\* C35: a poll runs the live snapshot to its end before it starts the event fetch, and
\* each of the two under its own acquisition of the engine lock: when the snapshot
\* returns the lock is released and the event fetch has to acquire it again, so another
\* caller's operation can run in between. If the snapshot reports a connection failure
\* the poll fails: no event fetch is called in that poll and the cursor is unchanged.
C35_LiveThenEventsSeparateLocks ==
  /\ [](/\ update.at = "status" => fr[PollThread].op.name = "live"
        /\ update.at = "events" =>
             /\ fr[PollThread].op.name = "events"
             /\ update.ret # <<>> /\ update.ret[1].error # "Connection failure"
        /\ update.at = "idle" => fr[PollThread] = NoFrame /\ pc[PollThread] = "idle"
        /\ (update.at = "idle" /\ update.failed) => update.ret = <<>>)
  /\ [][ /\ StatusReturn =>
              /\ pc[PollThread] = "exit" /\ fr[PollThread].ret # <<>>
              /\ ~is_connected
              /\ api_lock = PollThread /\ api_lock' = Free
              /\ IF fr[PollThread].ret[1].error = "Connection failure"
                 THEN /\ update'.at = "idle" /\ update'.failed
                      /\ fr'[PollThread] = NoFrame
                      /\ last_known_event_index_val' = last_known_event_index_val
                 ELSE /\ update'.at = "events"
                      /\ pc'[PollThread] = "lock"
         /\ (update.at # "events" /\ update'.at = "events") => StatusReturn
         /\ (update.at # "status" /\ update'.at = "status") => update.at = "idle" ]_vars

\* Between the two cycles of one poll: the snapshot has returned, the event fetch waits
\* for the lock, and the user's operation holds it and is on the wire.
C35_Witness ==
  /\ update.at = "events"
  /\ pc[PollThread] = "lock"
  /\ api_lock = UserThread
  /\ pc[UserThread] = "recv"
  /\ Len(wire) = 1 /\ wire[1].by = UserThread

\* The fields of a live snapshot that are None.
NullFields(cfg) == {i \in 1..Len(LiveKeys) : cfg[LiveKeys[i]] = IsNone}

\* C36: get_live_status_snapshot, once connected, requests area status, then zone status,
\* then active scenario, whatever fails on the way: at the end of its try body all three
\* commands have been written in that order, every field is either populated or None,
\* and the errors list has exactly one entry per None field. When connect fails it
\* returns the 'Connection failure' result with all three fields None, having written
\* no command.
C36_SnapshotSubFetchesIndependent ==
  \A c \in Callers :
    LET f == fr[c]
    IN  f.op.name = "live" =>
          /\ InSession(c) => IsPrefix(WireKeys, LiveCommands)
          /\ (pc[c] = "finally" /\ f.ret # <<>>) =>
               /\ WireKeys = LiveCommands
               /\ f.ret[1].error = ""
               /\ \A i \in 1..Len(LiveKeys) : f.ret[1].cfg[LiveKeys[i]] # Unset
               /\ Len(f.ret[1].errors) = Cardinality(NullFields(f.ret[1].cfg))
          /\ (pc[c] = "exit" /\ ~f.connected) =>
               /\ f.ret = <<[error |-> "Connection failure", cfg |-> LiveInitial,
                             errors |-> <<>>]>>
               /\ NullFields(f.ret[1].cfg) = 1..Len(LiveKeys)
               /\ wire = <<>>

\* The caller is in execute_activate_scenario with a scenario index outside 0..29.
InvalidActivation(c) == fr[c].op.name = "activate" /\ fr[c].op.scen \notin 0..29

\* C37: execute_activate_scenario with a scenario index outside 0..29 opens no
\* connection and writes no command, returns False, and when it has returned the lock
\* is free and the session is disconnected.
C37_InvalidScenarioTouchesNothing ==
  /\ [](\A c \in Callers :
          InvalidActivation(c) =>
            /\ pc[c] \in {"lock", "enter", "exit"}
            /\ fr[c].connects = 0 /\ fr[c].opened = 0 /\ ~fr[c].connected
            /\ \A i \in 1..Len(wire) : wire[i].by # c
            /\ api_lock = c => (~is_connected /\ sock = NoSock /\ wire = <<>>)
            /\ pc[c] = "exit" => fr[c].ret = <<FALSE>>)
  /\ [][ \A c \in Callers :
           (InvalidActivation(c) /\ pc'[c] = "idle") =>
             /\ pc[c] = "exit"
             /\ api_lock' = Free
             /\ ~is_connected' /\ sock' = NoSock /\ wire' = <<>> ]_vars

\* execute_activate_scenario(30) is about to return False while the other thread waits
\* for the lock: nothing was opened and nothing written.
C37_Witness ==
  \E c \in Callers :
    /\ fr[c].op.name = "activate" /\ fr[c].op.scen = 30
    /\ pc[c] = "exit" /\ fr[c].ret = <<FALSE>>
    /\ api_lock = c /\ ~is_connected /\ wire = <<>>
    /\ \E d \in Callers \ {c} : pc[d] = "lock"


\* The log lists its events newest first: each entry's index is above the next one's.
NewestFirst(log) == \A i, j \in 1..Len(log) : i < j => log[i] > log[j]

\* The first entries of a log, up to the display size.
Truncated(log) ==
  SubSeq(log, 1, IF Len(log) < event_log_display_size THEN Len(log) ELSE event_log_display_size)

\* C38: after any sequence of coordinator updates the event-log sensor holds at most
\* min(configured log size, 150) entries ordered newest first; an update that carries
\* new events prepends them in the order the engine returned them and truncates the
\* oldest entries, and an update that carries no new events (a successful one without
\* events, or a failed one) leaves the log unchanged.
C38_EventLogBoundedNewestFirst ==
  /\ [](Len(event_log) <= event_log_display_size /\ NewestFirst(event_log))
  /\ [][(scenario_mappings # <<>> /\ RefreshSucceeded) =>
          LET processed_events == coordinator_data'[1].processed_events
          IN  event_log' = IF processed_events # <<>>
                           THEN Truncated(processed_events \o event_log)
                           ELSE event_log]_vars
  /\ [][(scenario_mappings # <<>> /\ RefreshFailed) => event_log' = event_log]_vars

\* The coordinator's data lists at least one triggered area.
ListsTriggeredArea(data) ==
  data.areas_status # <<>> /\ Len(data.areas_status[1].triggered_areas) >= 1

AlarmStates ==
  {"DISARMED", "UNKNOWN", "TRIGGERED", "ARMED_HOME", "ARMED_AWAY", "ARMED_NIGHT",
   "ARMED_VACATION"}

\* C39: the alarm panel entity's state is TRIGGERED whenever the coordinator's latest
\* data lists at least one triggered area, whatever the active scenario and the
\* scenario mappings are; run without coordinator data, the entity's update keeps the
\* state it had, whatever that state and the mappings are.
C39_TriggeredAreaWins ==
  /\ (scenario_mappings # <<>> /\ coordinator_data # <<>>
        /\ ListsTriggeredArea(coordinator_data[1]))
       => current_ha_state_enum = "TRIGGERED"
  /\ \A state \in AlarmStates, options \in ScenarioMappings :
       UpdateInternalState(state, <<>>, options) = state

\* The entity is TRIGGERED while the active scenario is the one mapped to armed home.
C39_Witness ==
  /\ scenario_mappings # <<>>
  /\ coordinator_data # <<>>
  /\ ListsTriggeredArea(coordinator_data[1])
  /\ coordinator_data[1].active_scenario # <<>>
  /\ scenario_mappings[1].scenario_arm_home =
       <<coordinator_data[1].active_scenario[1].active_scenario_number>>
  /\ current_ha_state_enum = "TRIGGERED"

====
